---- MODULE Spec2Model ----
(***************************************************************************)
(* Extraction engine of the resort scraper: the zone/track parsers         *)
(* (main.py, main2.py, winter.py), the lift schedule extractor             *)
(* (lift_schedule_api.py) and the ski-pass price table parser (test.py).   *)
(*                                                                         *)
(* Texts are sequences of one-character strings.  Cyrillic literals of the *)
(* source are written in Latin transliteration, the original is given in   *)
(* the comment of each definition.                                         *)
(***************************************************************************)
EXTENDS Integers, Sequences, FiniteSets, TLC

VARIABLES
    variant,   \* which parse_tracks is running: "main", "main2" or "winter"
    blocks,    \* the track-option blocks of the document iterated so far
    tracks,    \* tracks_data, the list parse_tracks builds
    origin,    \* history: origin[k] is the index in blocks of the block of tracks[k]
    tpc,       \* position of parse_tracks: "idle", "loop" or "done"
    lift_name, \* extract_schedule: the caption text of the table
    row,       \* extract_schedule: text of the row scanned last
    nrows,     \* extract_schedule: rows scanned so far
    schedule,  \* extract_schedule: the schedule dict
    lpc,       \* position of extract_schedule: "idle", "scan" or "done"
    price_text,        \* clean_price: the argument
    price,             \* clean_price: the value returned
    cpc,               \* position of clean_price: "idle", "call" or "done"
    rows_seen,         \* parse_ski_pass_table: history, the rows iterated so far
    is_first_category, \* parse_ski_pass_table: the flag of the first-row skip
    current_category,  \* parse_ski_pass_table: None or the category name
    categories_data,   \* parse_ski_pass_table: the dict, in insertion order
    root,              \* parse_ski_pass_table: the categories of the RootCategory returned
    ppc,               \* position of parse_ski_pass_table: "idle", "scan" or "done"
    w_doc,        \* fetch_weather_data: None, or the document fetched
    weather_data, \* fetch_weather_data: the WeatherData returned, None before
    w_exc,        \* fetch_weather_data: the exception in flight, None if none
    w_error,      \* fetch_weather_data: the HTTPException that reached the caller
    wpc,          \* position of fetch_weather_data
    r_doc,      \* parse_single_restaurant: None, or the document at the URL
    r_results,  \* parse_single_restaurant: history, the outcome of each call
    rpc,        \* position of parse_single_restaurant
    z_variant,  \* get_zones: the module run, "main", "main2" or "winter"
    z_index,    \* get_zones: None, or the zone index page fetched
    zones,      \* get_zones: the zone links found on the index page
    z_next,     \* get_zones: index in zones of the link the loop takes next
    zones_data, \* get_zones: the zone records built so far
    z_log,      \* get_zones: history, the zone fetches and sleeps so far
    z_result,   \* get_zones: None, or how the call ended
    z_session,  \* get_zones: None, or the season cookie of the session
    z_requests, \* get_zones: history, the HTTP requests issued so far
    zpc,        \* position of get_zones
    e_name,        \* ecoTracs.py: None, or the trail_name of get_trail_by_name
    e_doc,         \* ecoTracs.py: None, or the page fetched
    e_i,           \* parse_eco_trails: index of the child the loop takes next
    trails,        \* parse_eco_trails: the trails appended so far
    current_trail, \* parse_eco_trails: None, or the trail being built
    e_exc,         \* ecoTracs.py: the exception in flight, None if none
    e_result,      \* ecoTracs.py: None, or how the endpoint ended
    epc,           \* position of the eco-trail endpoint
    parser_processes, \* endPoint.py: the global list of started processes
    ngrok_tunnels,    \* endPoint.py: the names that have a tunnel
    m_starts,         \* endPoint.py: calls of start_parsers so far
    m_launched,       \* endPoint.py: processes created so far
    m_k,              \* start_parsers: index of the parser the loop takes next
    m_j,              \* stop_parsers: index of the process the loop takes next
    m_nested,         \* stop_parsers: TRUE when called by start_parsers
    m_attempt,        \* check_service: attempts made by the latest call
    m_response,       \* check_service: what the latest attempt got, None before it
    m_log,            \* endPoint.py: history of launches, checks, signals, ends
    mpc               \* position of the process manager

trackVars == <<variant, blocks, tracks, origin, tpc>>

liftVars == <<lift_name, row, nrows, schedule, lpc>>

priceVars == <<price_text, price, cpc>>

passVars ==
    <<rows_seen, is_first_category, current_category, categories_data, root, ppc>>

weatherVars == <<w_doc, weather_data, w_exc, w_error, wpc>>

restaurantVars == <<r_doc, r_results, rpc>>

zoneVars ==
    <<z_variant, z_index, zones, z_next, zones_data, z_log, z_result,
      z_session, z_requests, zpc>>

ecoVars == <<e_name, e_doc, e_i, trails, current_trail, e_exc, e_result, epc>>

managerVars ==
    <<parser_processes, ngrok_tunnels, m_starts, m_launched, m_k, m_j, m_nested,
      m_attempt, m_response, m_log, mpc>>

vars ==
    <<trackVars, liftVars, priceVars, passVars, weatherVars, restaurantVars,
      zoneVars, ecoVars, managerVars>>

\* What an extractor leaves alone: the state of the others.
offTracks ==
    <<liftVars, priceVars, passVars, weatherVars,
      restaurantVars, zoneVars, ecoVars, managerVars>>

offLift ==
    <<trackVars, priceVars, passVars, weatherVars,
      restaurantVars, zoneVars, ecoVars, managerVars>>

offPrice ==
    <<trackVars, liftVars, passVars, weatherVars,
      restaurantVars, zoneVars, ecoVars, managerVars>>

offPass ==
    <<trackVars, liftVars, priceVars, weatherVars,
      restaurantVars, zoneVars, ecoVars, managerVars>>

offWeather ==
    <<trackVars, liftVars, priceVars, passVars, restaurantVars, zoneVars,
      ecoVars, managerVars>>

offRestaurant ==
    <<trackVars, liftVars, priceVars, passVars, weatherVars, zoneVars, ecoVars,
      managerVars>>

offZones ==
    <<trackVars, liftVars, priceVars, passVars, weatherVars, restaurantVars,
      ecoVars, managerVars>>

offEco ==
    <<trackVars, liftVars, priceVars, passVars, weatherVars, restaurantVars,
      zoneVars, managerVars>>

offManager ==
    <<trackVars, liftVars, priceVars, passVars, weatherVars, restaurantVars,
      zoneVars, ecoVars>>

----------------------------------------------------------------------------
(* Optional values: None is Python's None / a missing element.             *)

None == <<>>

Some(x) == <<x>>

----------------------------------------------------------------------------
(* Text helpers.                                                           *)

IsSpace(c) == c = " "

Digits == {"0", "1", "2", "3", "4", "5", "6", "7", "8", "9"}

DigitVal(c) ==
    CASE c = "0" -> 0 [] c = "1" -> 1 [] c = "2" -> 2 [] c = "3" -> 3
      [] c = "4" -> 4 [] c = "5" -> 5 [] c = "6" -> 6 [] c = "7" -> 7
      [] c = "8" -> 8 [] c = "9" -> 9

\* str.strip(): leading and trailing whitespace removed.
RECURSIVE LStrip(_)
LStrip(s) ==
    IF s # <<>> /\ IsSpace(Head(s)) THEN LStrip(Tail(s)) ELSE s

RECURSIVE RStrip(_)
RStrip(s) ==
    IF s # <<>> /\ IsSpace(s[Len(s)]) THEN RStrip(SubSeq(s, 1, Len(s) - 1)) ELSE s

Strip(s) == RStrip(LStrip(s))

\* Value of a sequence of decimal digits, most significant first.
RECURSIVE DecValue(_)
DecValue(ds) ==
    IF ds = <<>> THEN 0
    ELSE 10 * DecValue(SubSeq(ds, 1, Len(ds) - 1)) + DigitVal(ds[Len(ds)])

AllDigits(s) == s # <<>> /\ \A i \in 1..Len(s) : s[i] \in Digits

\* int(s) of Python on a text: surrounding whitespace is ignored, an optional
\* sign, then one or more digits.  IntParses is "no ValueError is raised".
IntBody(s) ==
    LET t == Strip(s)
    IN  IF t # <<>> /\ Head(t) \in {"+", "-"} THEN Tail(t) ELSE t

IntParses(s) == AllDigits(IntBody(s))

IntOf(s) ==
    LET t == Strip(s)
    IN  IF t # <<>> /\ Head(t) = "-" THEN 0 - DecValue(IntBody(s))
        ELSE DecValue(IntBody(s))

----------------------------------------------------------------------------
(* Zone/track extractor: parse_tracks of main.py, main2.py and winter.py.  *)

\* "Не указано" (not specified): the placeholder of a missing name or number.
NeUkazano == <<"N", "e", " ", "u", "k", "a", "z", "a", "n", "o">>

\* The difficulty texts of main.py: 'Простая' (easy), 'Средняя' (medium),
\* 'Сложная' (hard), 'Очень сложная' (expert).
Prostaya == "Prostaya"

Srednyaya == "Srednyaya"

Slozhnaya == "Slozhnaya"

OchenSlozhnaya == "Ochen slozhnaya"

\* The difficulty before classification, the text "Не указано" (unknown).
DifficultyNeUkazano == "Ne ukazano"

\* A class token of the number element: 'track-option__number' itself
\* (suffix None) or 'track-option__number_style_<suffix>'.
BaseClass == [style |-> FALSE, suffix |-> <<>>]

StyleClass(sfx) == [style |-> TRUE, suffix |-> sfx]

\* 'track-option__number_style_<k>' in c, a substring test: true of a style
\* class whose suffix starts with k.
StyleSubstringIn(k, c) ==
    c.style /\ Len(c.suffix) >= 1 /\ c.suffix[1] = k

\* any('track-option__number_style_<k>' in c for c in classes)
AnyStyle(k, classes) == \E c \in classes : StyleSubstringIn(k, c)

\* Stage one of the difficulty of main.py's parse_tracks: the style classes
\* of the number element, tried in the order 1, 2, 3, 4.
DifficultyByClass(numberElem) ==
    IF numberElem = None \/ numberElem[1].classes = {} THEN DifficultyNeUkazano
    ELSE LET classes == numberElem[1].classes
         IN  IF AnyStyle("1", classes) THEN Prostaya
             ELSE IF AnyStyle("2", classes) THEN Srednyaya
             ELSE IF AnyStyle("3", classes) THEN Slozhnaya
             ELSE IF AnyStyle("4", classes) THEN OchenSlozhnaya
             ELSE DifficultyNeUkazano

\* The banding with the second band one short.
DifficultyByNumberShortBand(number) ==
    IF IntParses(number)
    THEN LET track_num == IntOf(number)
         IN  IF track_num <= 4 THEN Prostaya
             ELSE IF track_num < 8 THEN Srednyaya
             ELSE IF track_num <= 12 THEN Slozhnaya
             ELSE OchenSlozhnaya
    ELSE Srednyaya

\* Stage two: int(number) and the banding; the except branch of a number
\* that does not parse sets 'Средняя', the default.

DifficultyByNumber(number) ==
    IF IntParses(number)
    THEN LET track_num == IntOf(number)
         IN  IF track_num <= 4 THEN Prostaya
             ELSE IF track_num <= 8 THEN Srednyaya
             ELSE IF track_num <= 12 THEN Slozhnaya
             ELSE OchenSlozhnaya
    ELSE Srednyaya

\* number = number_elem.text.strip() if number_elem else "Не указано"
NumberOf(block) ==
    IF block.numberElem = None THEN NeUkazano
    ELSE Strip(block.numberElem[1].text)

\* The two stages in the wrong order: the banding first, the classes after.
DifficultyNumberFirst(block) ==
    IF IntParses(NumberOf(block))
    THEN DifficultyByNumber(NumberOf(block))
    ELSE DifficultyByClass(block.numberElem)

\* The stage-two guard without its default: a number that does not parse
\* leaves the difficulty as it is.
DifficultyNoDefault(block) ==
    LET byClass == DifficultyByClass(block.numberElem)
    IN  IF byClass = DifficultyNeUkazano /\ IntParses(NumberOf(block))
        THEN DifficultyByNumber(NumberOf(block))
        ELSE byClass

\* The difficulty of a block: stage two runs only when stage one left the
\* difficulty at "Не указано" and the number is not the placeholder.
Difficulty(block) ==
    LET byClass == DifficultyByClass(block.numberElem)
    IN  IF byClass = DifficultyNeUkazano /\ NumberOf(block) # NeUkazano
        THEN DifficultyByNumber(NumberOf(block))
        ELSE byClass

\* track_name of main.py and main2.py: None without a name element.
TrackName(block) ==
    IF block.nameElem = None THEN None ELSE Some(Strip(block.nameElem[1]))

\* "if not track_name: continue": None and the empty text are falsy.
NameIsFalsy(name) == name = None \/ name = Some(<<>>)

\* track_name of winter.py: the placeholder without a name element.
WinterTrackName(block) ==
    IF block.nameElem = None THEN NeUkazano ELSE Strip(block.nameElem[1])

----------------------------------------------------------------------------
(* The documents the track parsers are run on.                             *)

\* Most track-option blocks one document holds.
MaxBlocks == 2

NameTexts == {<<>>, <<" ">>, <<"A">>, <<" ", "B", " ">>}

NumberTexts ==
    { <<"1">>, <<"4">>, <<"5">>, <<" ", "6">>, <<"8">>, <<"9">>,
      <<"1", "2">>, <<"1", "3">>, <<"2", "0">>, <<"x">>, <<>>, NeUkazano }

\* The display numbers tried under every style class.
StyledNumberTexts == { <<"1">>, <<"2", "0">>, <<"x">> }

\* The class attribute of a styled number element: the class it was found
\* by and one or two style classes.
StyledClassSets ==
    { {BaseClass} \cup st :
        st \in { {StyleClass(<<"1">>)}, {StyleClass(<<"2">>)},
                 {StyleClass(<<"3">>)}, {StyleClass(<<"4">>)},
                 {StyleClass(<<"3">>), StyleClass(<<"4">>)},
                 {StyleClass(<<"1", "2">>)} } }

NumberElems ==
    {None}
    \cup { Some([classes |-> {BaseClass}, text |-> t]) : t \in NumberTexts }
    \cup { Some([classes |-> cs, text |-> t]) :
             cs \in StyledClassSets, t \in StyledNumberTexts }

\* Blocks with every number element under one name, and blocks with every
\* kind of name element.
Blocks ==
    { [nameElem |-> Some(<<"A">>), numberElem |-> n] : n \in NumberElems }
    \cup
    { [nameElem |-> nm, numberElem |-> n] :
        nm \in {None} \cup { Some(t) : t \in NameTexts },
        n \in {None, Some([classes |-> {BaseClass}, text |-> <<"1">>])} }

Variants == {"main", "main2", "winter"}

----------------------------------------------------------------------------
(* parse_tracks as a state machine: one step per iteration of             *)
(* "for track in tracks", and the return.  The parameter set, the status   *)
(* and the detail URL of a Track are copied from the block's own elements  *)
(* and take no part in the name, the number or the difficulty: they are    *)
(* left out of the Track records.                                          *)

\* The extractors that are not running stay idle.
TracksIdle ==
    /\ variant = "none"
    /\ blocks = <<>>
    /\ tracks = <<>>
    /\ origin = <<>>
    /\ tpc = "idle"

LiftIdle ==
    /\ lift_name = <<>>
    /\ row = <<>>
    /\ nrows = 0
    /\ schedule = <<>>
    /\ lpc = "idle"

PriceIdle ==
    /\ price_text = <<>>
    /\ price = None
    /\ cpc = "idle"

PassIdle ==
    /\ rows_seen = <<>>
    /\ is_first_category = TRUE
    /\ current_category = None
    /\ categories_data = <<>>
    /\ root = <<>>
    /\ ppc = "idle"

WeatherIdle ==
    /\ w_doc = None
    /\ weather_data = None
    /\ w_exc = None
    /\ w_error = None
    /\ wpc = "idle"

RestaurantIdle ==
    /\ r_doc = None
    /\ r_results = <<>>
    /\ rpc = "idle"

ZonesIdle ==
    /\ z_variant = "main"
    /\ z_index = None
    /\ zones = <<>>
    /\ z_next = 1
    /\ zones_data = <<>>
    /\ z_log = <<>>
    /\ z_result = None
    /\ z_session = None
    /\ z_requests = <<>>
    /\ zpc = "idle"

EcoIdle ==
    /\ e_name = None
    /\ e_doc = None
    /\ e_i = 1
    /\ trails = <<>>
    /\ current_trail = None
    /\ e_exc = None
    /\ e_result = None
    /\ epc = "idle"

ManagerIdle ==
    /\ parser_processes = <<>>
    /\ ngrok_tunnels = {}
    /\ m_starts = 0
    /\ m_launched = 0
    /\ m_k = 1
    /\ m_j = 1
    /\ m_nested = FALSE
    /\ m_attempt = 0
    /\ m_response = None
    /\ m_log = <<>>
    /\ mpc = "idle"

TracksInit ==
    /\ LiftIdle /\ PriceIdle /\ PassIdle /\ WeatherIdle
    /\ RestaurantIdle /\ ZonesIdle
    /\ EcoIdle /\ ManagerIdle
    /\ variant \in Variants
    /\ blocks = <<>>
    /\ tracks = <<>>
    /\ origin = <<>>
    /\ tpc = "loop"

Append2(block, track) ==
    /\ blocks' = Append(blocks, block)
    /\ tracks' = Append(tracks, track)
    /\ origin' = Append(origin, Len(blocks) + 1)

SkipBlock(block) ==
    /\ blocks' = Append(blocks, block)
    /\ UNCHANGED <<tracks, origin>>

\* main.py: one iteration of the loop of parse_tracks.
MainParseBlock(block) ==
    /\ tpc = "loop" /\ variant = "main" /\ Len(blocks) < MaxBlocks
    /\ IF NameIsFalsy(TrackName(block))
       THEN SkipBlock(block)
       ELSE Append2(block, [name |-> TrackName(block)[1],
                            number |-> NumberOf(block),
                            difficulty |-> Difficulty(block)])
    /\ UNCHANGED <<variant, tpc, offTracks>>

\* main2.py: one iteration of the loop of parse_tracks.
Main2ParseBlock(block) ==
    /\ tpc = "loop" /\ variant = "main2" /\ Len(blocks) < MaxBlocks
    /\ IF NameIsFalsy(TrackName(block))
       THEN SkipBlock(block)
       ELSE Append2(block, [name |-> TrackName(block)[1],
                            number |-> NumberOf(block)])
    /\ UNCHANGED <<variant, tpc, offTracks>>

\* winter.py: one iteration of the loop of parse_tracks; no block is skipped.
WinterParseBlock(block) ==
    /\ tpc = "loop" /\ variant = "winter" /\ Len(blocks) < MaxBlocks
    /\ Append2(block, [name |-> WinterTrackName(block),
                       number |-> NumberOf(block)])
    /\ UNCHANGED <<variant, tpc, offTracks>>

\* "return tracks_data" once the document has no further block.
TracksReturn ==
    /\ tpc = "loop"
    /\ tpc' = "done"
    /\ UNCHANGED <<variant, blocks, tracks, origin, offTracks>>

TracksNext ==
    \/ \E block \in Blocks : MainParseBlock(block)
    \/ \E block \in Blocks : Main2ParseBlock(block)
    \/ \E block \in Blocks : WinterParseBlock(block)
    \/ TracksReturn

SpecTracks == TracksInit /\ [][TracksNext]_vars

----------------------------------------------------------------------------
(* Properties of the zone/track extractor.                                 *)

\* The block tracks[k] was built from.
BlockOf(k) == blocks[origin[k]]

\* The suffixes among 1..4 of the style classes of a number element, and
\* whether every style class it carries is one of those four.
StyleSuffixes(numberElem) ==
    { d \in {"1", "2", "3", "4"} : StyleClass(<<d>>) \in numberElem[1].classes }

OnlyPlainStyles(numberElem) ==
    \A c \in numberElem[1].classes :
        c.style => c.suffix \in { <<"1">>, <<"2">>, <<"3">>, <<"4">> }

HasNoStyleClass(numberElem) == \A c \in numberElem[1].classes : ~c.style

TierOfSuffix(d) ==
    CASE d = "1" -> Prostaya [] d = "2" -> Srednyaya
      [] d = "3" -> Slozhnaya [] d = "4" -> OchenSlozhnaya

LowestSuffix(sfx) == CHOOSE d \in sfx : \A e \in sfx : DigitVal(d) <= DigitVal(e)

TierOfBand(n) ==
    IF n <= 4 THEN Prostaya
    ELSE IF n >= 5 /\ n <= 8 THEN Srednyaya
    ELSE IF n >= 9 /\ n <= 12 THEN Slozhnaya
    ELSE OchenSlozhnaya

\* C1: in main.py, a track whose number element carries the style class of
\* suffix k in 1..4 has the difficulty of k (of the lowest such k when it
\* carries several), whatever its display number is.
C1_StyleClassDecides ==
    variant = "main" =>
        \A k \in 1..Len(tracks) :
            LET ne == BlockOf(k).numberElem
            IN  (ne # None /\ OnlyPlainStyles(ne) /\ StyleSuffixes(ne) # {}) =>
                    tracks[k].difficulty = TierOfSuffix(LowestSuffix(StyleSuffixes(ne)))

\* A track of style class 3 and display number 20 (the banding would say
\* expert) came out as hard.
C1_Witness ==
    /\ variant = "main"
    /\ \E k \in 1..Len(tracks) :
        /\ BlockOf(k).numberElem # None
        /\ BlockOf(k).numberElem[1].classes = {BaseClass, StyleClass(<<"3">>)}
        /\ BlockOf(k).numberElem[1].text = <<"2", "0">>
        /\ tracks[k].difficulty = Slozhnaya

\* C2: in main.py, a track whose number element carries no style class and
\* whose display number parses as the integer n is easy for n <= 4, medium
\* for 5..8, hard for 9..12 and expert above 12.
C2_NumericBand ==
    variant = "main" =>
        \A k \in 1..Len(tracks) :
            LET ne == BlockOf(k).numberElem
            IN  (ne # None /\ HasNoStyleClass(ne) /\ IntParses(ne[1].text)) =>
                    tracks[k].difficulty = TierOfBand(IntOf(ne[1].text))

\* A track without style class and with display number 6 came out as medium.
C2_Witness ==
    /\ variant = "main"
    /\ \E k \in 1..Len(tracks) :
        /\ BlockOf(k).numberElem # None
        /\ HasNoStyleClass(BlockOf(k).numberElem)
        /\ Strip(BlockOf(k).numberElem[1].text) = <<"6">>
        /\ tracks[k].difficulty = Srednyaya

\* No style class matched and the display number is no integer: there is no
\* number element, or it has no style class and a text int() rejects.
NoStageDecides(block) ==
    \/ block.numberElem = None
    \/ /\ HasNoStyleClass(block.numberElem)
       /\ ~IntParses(block.numberElem[1].text)

\* C3 as claimed: in main.py, a track for which no style class matched and
\* whose display number does not parse as an integer has the difficulty
\* unknown.
C3_UnknownOtherwise ==
    variant = "main" =>
        \A k \in 1..Len(tracks) :
            NoStageDecides(BlockOf(k)) => tracks[k].difficulty = DifficultyNeUkazano

\* C3 amended: such a track is unknown only when it has no number element or
\* the trimmed number text is the placeholder "Не указано" itself; with any
\* other text that is no integer it is medium, the default.
C3_UnknownOrDefault ==
    variant = "main" =>
        \A k \in 1..Len(tracks) :
            LET b == BlockOf(k)
            IN  NoStageDecides(b) =>
                    tracks[k].difficulty =
                        IF b.numberElem = None \/ Strip(b.numberElem[1].text) = NeUkazano
                        THEN DifficultyNeUkazano
                        ELSE Srednyaya

\* A track with the display number "x" and one without number element were
\* both classified.
C3_Witness ==
    /\ variant = "main"
    /\ \E k \in 1..Len(tracks) :
        /\ BlockOf(k).numberElem # None
        /\ HasNoStyleClass(BlockOf(k).numberElem)
        /\ BlockOf(k).numberElem[1].text = <<"x">>
        /\ tracks[k].difficulty = Srednyaya
    /\ \E k \in 1..Len(tracks) :
        /\ BlockOf(k).numberElem = None
        /\ tracks[k].difficulty = DifficultyNeUkazano

\* The name a block shows: None without a name element.
ShownName(block) ==
    IF block.nameElem = None THEN None ELSE Some(Strip(block.nameElem[1]))

\* C4: in every variant, no track has a missing, empty or placeholder name:
\* each track comes from a block with a name element whose trimmed text is
\* not empty, and the blocks with such a name are exactly the origins of the
\* tracks, in document order.
C4_NamelessBlocksSkipped ==
    /\ \A k \in 1..Len(tracks) :
        /\ ShownName(BlockOf(k)) \notin {None, Some(<<>>)}
        /\ tracks[k].name = ShownName(BlockOf(k))[1]
        /\ tracks[k].name # NeUkazano
    /\ \A k \in 1..Len(origin) - 1 : origin[k] < origin[k + 1]
    /\ \A i \in 1..Len(blocks) :
        ShownName(blocks[i]) \notin {None, Some(<<>>)} =>
            \E k \in 1..Len(origin) : origin[k] = i

----------------------------------------------------------------------------
(* Lift schedule extractor: extract_schedule of lift_schedule_api.py.      *)
(* A row text is a sequence of characters in which each of the four day    *)
(* phrases is one token; 'с' is written "s" and 'до' is written "d","o".   *)

\* 'Понедельник-пятница'
PonedelnikPyatnitsa == "Ponedelnik-pyatnitsa"

\* 'Суббота и воскресенье'
SubbotaIVoskresenye == "Subbota i voskresenye"

\* 'Суббота:'
Subbota == "Subbota:"

\* 'Воскресенье:'
Voskresenye == "Voskresenye:"

\* 'Запад', the word of the lift name that brings the default weekend hours.
Zapad == "Zapad"

\* phrase in text
PhraseIn(phrase, text) == \E i \in 1..Len(text) : text[i] = phrase

\* The index after the longest run of digits of text that starts at i: \d+
\* is greedy, and what follows it in the pattern is never a digit.
RECURSIVE DigitRunEnd(_, _)
DigitRunEnd(text, i) ==
    IF i <= Len(text) /\ text[i] \in Digits THEN DigitRunEnd(text, i + 1) ELSE i

\* \d+:\d+ at index i: the index after the match, 0 when there is none.
TimeEnd(text, i) ==
    LET j == DigitRunEnd(text, i)
    IN  IF j > i /\ j <= Len(text) /\ text[j] = ":"
        THEN LET k == DigitRunEnd(text, j + 1)
             IN  IF k > j + 1 THEN k ELSE 0
        ELSE 0

LiteralAt(lit, text, i) ==
    /\ i >= 1
    /\ i + Len(lit) - 1 <= Len(text)
    /\ SubSeq(text, i, i + Len(lit) - 1) = lit

\* r'с (\d+:\d+) до (\d+:\d+)' matched at index i: the two groups, or None.
TimeRangeAt(text, i) ==
    IF ~LiteralAt(<<"s", " ">>, text, i) THEN None
    ELSE LET a == TimeEnd(text, i + 2)
         IN  IF a = 0 \/ ~LiteralAt(<<" ", "d", "o", " ">>, text, a) THEN None
             ELSE LET b == TimeEnd(text, a + 4)
                  IN  IF b = 0 THEN None
                      ELSE Some(<<SubSeq(text, i + 2, a - 1),
                                  SubSeq(text, a + 4, b - 1)>>)

\* re.search: the match at the leftmost index that has one.
TimeRangeSearch(text) ==
    LET hits == { i \in 1..Len(text) : TimeRangeAt(text, i) # None }
    IN  IF hits = {} THEN None
        ELSE TimeRangeAt(text, CHOOSE i \in hits : \A j \in hits : i <= j)

\* The two groups the wrong way round.
FormatRangeSwapped(groups) == groups[2] \o <<"-">> \o groups[1]

\* f"{time.group(1)}-{time.group(2)}"
FormatRange(groups) == groups[1] \o <<"-">> \o groups[2]

\* '09:00-21:00' and '09:00-22:00', the weekend defaults of the 'Запад' lifts.
SundayDefault == <<"0", "9", ":", "0", "0", "-", "2", "1", ":", "0", "0">>

SaturdayDefault == <<"0", "9", ":", "0", "0", "-", "2", "2", ":", "0", "0">>

\* The schedule dict: a key that is not set is None.
EmptySchedule == [workdays |-> None, saturday |-> None, sunday |-> None]

\* A chain that tries the Sunday phrase first.
ScanRowIntoSundayFirst(sched, text) ==
    LET time == TimeRangeSearch(text)
    IN  IF time = None THEN sched
        ELSE IF PhraseIn(Voskresenye, text)
        THEN [sched EXCEPT !.sunday = Some(FormatRange(time[1]))]
        ELSE IF PhraseIn(PonedelnikPyatnitsa, text)
        THEN [sched EXCEPT !.workdays = Some(FormatRange(time[1]))]
        ELSE IF PhraseIn(SubbotaIVoskresenye, text)
        THEN [sched EXCEPT !.saturday = Some(FormatRange(time[1])),
                           !.sunday = Some(FormatRange(time[1]))]
        ELSE IF PhraseIn(Subbota, text)
        THEN [sched EXCEPT !.saturday = Some(FormatRange(time[1]))]
        ELSE sched

\* The body of "for row in rows": the if/elif chain over the four phrases.
ScanRowInto(sched, text) ==
    LET time == TimeRangeSearch(text)
    IN  IF PhraseIn(PonedelnikPyatnitsa, text)
        THEN IF time # None
             THEN [sched EXCEPT !.workdays = Some(FormatRange(time[1]))]
             ELSE sched
        ELSE IF PhraseIn(SubbotaIVoskresenye, text)
        THEN IF time # None
             THEN [sched EXCEPT !.saturday = Some(FormatRange(time[1])),
                                !.sunday = Some(FormatRange(time[1]))]
             ELSE sched
        ELSE IF PhraseIn(Subbota, text)
        THEN IF time # None
             THEN [sched EXCEPT !.saturday = Some(FormatRange(time[1]))]
             ELSE sched
        ELSE IF PhraseIn(Voskresenye, text)
        THEN IF time # None
             THEN [sched EXCEPT !.sunday = Some(FormatRange(time[1]))]
             ELSE sched
        ELSE sched

\* The override that forgets to look at what the rows set.
WeekendDefaultsAlways(sched, name) ==
    IF PhraseIn(Zapad, name)
    THEN [sched EXCEPT !.sunday = Some(SundayDefault),
                       !.saturday = Some(SaturdayDefault)]
    ELSE sched

\* The special handling of the 'Запад' lifts after the loop.
WeekendDefaults(sched, name) ==
    IF PhraseIn(Zapad, name)
    THEN [sched EXCEPT
            !.sunday = IF sched.sunday = None THEN Some(SundayDefault) ELSE @,
            !.saturday = IF sched.saturday = None THEN Some(SaturdayDefault) ELSE @]
    ELSE sched

----------------------------------------------------------------------------
(* The tables extract_schedule is run on.                                  *)

\* Most rows one lift table holds.
MaxRows == 3

T0900 == <<"0", "9", ":", "0", "0">>

T1030 == <<"1", "0", ":", "3", "0">>

T1700 == <<"1", "7", ":", "0", "0">>

T1800 == <<"1", "8", ":", "0", "0">>

\* 'с <a> до <b>'
TimePhrase(a, b) == <<"s", " ">> \o a \o <<" ", "d", "o", " ">> \o b

TimePhrases ==
    { <<>>,
      TimePhrase(T0900, T1700),
      TimePhrase(T1030, T1800),
      TimePhrase(<<"9", ":", "0">>, T1700),
      TimePhrase(<<"1", "2", "3", ":", "4", "5", "6", "7">>, T1700),
      TimePhrase(<<"0", "9", "0", "0">>, <<"1", "7", "0", "0">>),
      T0900 \o <<" ", "d", "o", " ">> \o T1700,
      TimePhrase(T0900, T1700) \o <<" ">> \o TimePhrase(T1030, T1800) }

DayPhrases ==
    { <<>>, <<PonedelnikPyatnitsa>>, <<SubbotaIVoskresenye>>, <<Subbota>>,
      <<Voskresenye>>, <<Voskresenye, " ", PonedelnikPyatnitsa>> }

\* get_text(strip=True) of a row: the texts of its cells, joined.
RowTexts == { d \o t : d \in DayPhrases, t \in TimePhrases }

\* 'Запад низ', 'Запад верх', 'Восток'
LiftNames == { <<Zapad, " ", "niz">>, <<Zapad, " ", "verkh">>, <<"Vostok">> }

----------------------------------------------------------------------------
(* extract_schedule as a state machine: one step per row, then the         *)
(* override and the return.                                                *)

LiftInit ==
    /\ TracksIdle /\ PriceIdle /\ PassIdle /\ WeatherIdle
    /\ RestaurantIdle /\ ZonesIdle
    /\ EcoIdle /\ ManagerIdle
    /\ lift_name \in LiftNames
    /\ row = <<>>
    /\ nrows = 0
    /\ schedule = EmptySchedule
    /\ lpc = "scan"

ScanRow(text) ==
    /\ lpc = "scan" /\ nrows < MaxRows
    /\ row' = text
    /\ nrows' = nrows + 1
    /\ schedule' = ScanRowInto(schedule, text)
    /\ UNCHANGED <<lift_name, lpc, offLift>>

\* The rows are exhausted: the override runs and the schedule is returned.
ScheduleReturn ==
    /\ lpc = "scan"
    /\ schedule' = WeekendDefaults(schedule, lift_name)
    /\ lpc' = "done"
    /\ UNCHANGED <<lift_name, row, nrows, offLift>>

LiftNext ==
    \/ \E text \in RowTexts : ScanRow(text)
    \/ ScheduleReturn

SpecLift == LiftInit /\ [][LiftNext]_vars

----------------------------------------------------------------------------
(* Properties of the lift schedule extractor.                              *)

ClockTimes == {T0900, T1030, T1700, T1800}

\* The row text has the phrase 'с a до b' as its first 'с', and no digit
\* goes on after b.
FirstTimePhraseIs(text, a, b) ==
    \E i \in 1..Len(text) :
        /\ \A j \in 1..(i - 1) : text[j] # "s"
        /\ LiteralAt(TimePhrase(a, b), text, i)
        /\ LET e == i + Len(TimePhrase(a, b))
           IN  e > Len(text) \/ text[e] \notin Digits

\* C5: once a row with the workday phrase and the time phrase 'с A до B' was
\* scanned, and no row after it, workdays is exactly 'A-B'.
C5_WorkdayRange ==
    (lpc \in {"scan", "done"} /\ nrows >= 1 /\ PhraseIn(PonedelnikPyatnitsa, row)) =>
        \A a \in ClockTimes, b \in ClockTimes :
            FirstTimePhraseIs(row, a, b) =>
                schedule.workdays = Some(a \o <<"-">> \o b)

\* The row 'Понедельник-пятница' 'с 09:00 до 17:00' gave '09:00-17:00'.
C5_Witness ==
    /\ lpc = "scan"
    /\ row = <<PonedelnikPyatnitsa>> \o TimePhrase(T0900, T1700)
    /\ schedule.workdays =
         Some(<<"0", "9", ":", "0", "0", "-", "1", "7", ":", "0", "0">>)

\* A value of the exact shape HH:MM-HH:MM.
IsClockRange(v) ==
    /\ Len(v) = 11
    /\ \A i \in {1, 2, 4, 5, 7, 8, 10, 11} : v[i] \in Digits
    /\ v[3] = ":" /\ v[9] = ":" /\ v[6] = "-"

\* C6: each of workdays, saturday and sunday of a returned schedule is absent
\* or a range of the exact shape HH:MM-HH:MM.
C6_ValidatedRanges ==
    lpc = "done" =>
        \A v \in {schedule.workdays, schedule.saturday, schedule.sunday} :
            v = None \/ IsClockRange(v[1])

\* C7: the return step changes the scanned schedule only by putting the
\* default into a weekend field that is absent, and only for a lift whose
\* name contains 'Запад': a value taken from a row stays, workdays stays, and
\* any other lift keeps its schedule as scanned.
C7_WeekendDefaults ==
    [][ (lpc = "scan" /\ lpc' = "done") =>
          /\ schedule'.workdays = schedule.workdays
          /\ schedule'.saturday =
               IF PhraseIn(Zapad, lift_name) /\ schedule.saturday = None
               THEN Some(SaturdayDefault) ELSE schedule.saturday
          /\ schedule'.sunday =
               IF PhraseIn(Zapad, lift_name) /\ schedule.sunday = None
               THEN Some(SundayDefault) ELSE schedule.sunday ]_vars

\* A 'Запад' lift was returned with the Saturday range of its row and the
\* default on Sunday.
C7_Witness ==
    /\ lpc = "done"
    /\ PhraseIn(Zapad, lift_name)
    /\ row = <<Subbota>> \o TimePhrase(T1030, T1800)
    /\ schedule.saturday = Some(T1030 \o <<"-">> \o T1800)
    /\ schedule.sunday = Some(SundayDefault)

----------------------------------------------------------------------------
(* Price cleaning: clean_price of test.py.  The rouble sign is written     *)
(* "rub".                                                                  *)

\* re.sub(r'[^\d]', '', text): the digits of the text, in order.
DigitsOnly(text) == SelectSeq(text, LAMBDA c : c \in Digits)

\* clean_price that turns a text without digits into the price 0.
clean_price_zero(text) ==
    IF text = <<"-">> THEN None
    ELSE Some(DecValue(DigitsOnly(text)))

\* clean_price: None for the text '-' and for a text without digits, the
\* integer of the digits otherwise.
clean_price(text) ==
    IF text = <<"-">> THEN None
    ELSE LET digits == DigitsOnly(text)
         IN  IF digits # <<>> THEN Some(DecValue(digits)) ELSE None

\* Longest price text tried with every character.
MaxPriceLen == 4

PriceChars == {"0", "1", "5", " ", "-", "rub"}

\* '1 500 ₽'
PriceExample == <<"1", " ", "5", "0", "0", " ", "rub">>

PriceTexts ==
    UNION { [1..n -> PriceChars] : n \in 0..MaxPriceLen } \cup {PriceExample}

PriceInit ==
    /\ TracksIdle /\ LiftIdle /\ PassIdle /\ WeatherIdle
    /\ RestaurantIdle /\ ZonesIdle
    /\ EcoIdle /\ ManagerIdle
    /\ price_text \in PriceTexts
    /\ price = None
    /\ cpc = "call"

\* The call of clean_price on the text.
CleanPrice ==
    /\ cpc = "call"
    /\ price' = clean_price(price_text)
    /\ cpc' = "done"
    /\ UNCHANGED <<price_text, offPrice>>

PriceNext == CleanPrice

SpecPrice == PriceInit /\ [][PriceNext]_vars

----------------------------------------------------------------------------
(* Properties of clean_price.                                              *)

RECURSIVE Pow10(_)
Pow10(n) == IF n = 0 THEN 1 ELSE 10 * Pow10(n - 1)

\* The positions of the digits of a text.
DigitPositions(text) == { i \in 1..Len(text) : text[i] \in Digits }

\* The number whose decimal digits are the digits of the text, in order: the
\* digit at position i counts 10 to the number of digits after i.
RECURSIVE SumOver(_, _)
SumOver(text, ps) ==
    IF ps = {} THEN 0
    ELSE LET i == CHOOSE x \in ps : TRUE
         IN  DigitVal(text[i])
               * Pow10(Cardinality({ j \in DigitPositions(text) : j > i }))
             + SumOver(text, ps \ {i})

\* C8: clean_price gives absent for the text '-' and for a text without a
\* digit, and otherwise the non-negative integer written by the digits of
\* the text in order; no text without digits gives 0.
C8_CleanPrice ==
    cpc = "done" =>
        IF price_text = <<"-">> \/ DigitPositions(price_text) = {}
        THEN price = None
        ELSE /\ price # None
             /\ price[1] \in Nat
             /\ price[1] = SumOver(price_text, DigitPositions(price_text))

\* '1 500 ₽' was cleaned to 1500.
C8_Witness ==
    /\ cpc = "done"
    /\ price_text = PriceExample
    /\ price = Some(1500)

----------------------------------------------------------------------------
(* Price-plan extractor: parse_ski_pass_table of test.py.                  *)
(* A row is [background, cells]: whether 'background' occurs in str(row),  *)
(* and its th/td cells; a cell is [colspan, text, h3, div]: its colspan    *)
(* attribute, its get_text(strip=True), and the texts of its first h3 and  *)
(* div children, None where there is none.                                 *)

\* The code point order of the characters of category names.
CodePoint(c) ==
    CASE c = " " -> 32 [] c = "a" -> 97 [] c = "b" -> 98 [] c = "d" -> 100
      [] c = "p" -> 112 [] c = "q" -> 113

\* s < t of Python strings.
RECURSIVE StrLess(_, _)
StrLess(s, t) ==
    IF t = <<>> THEN FALSE
    ELSE IF s = <<>> THEN TRUE
    ELSE IF Head(s) # Head(t) THEN CodePoint(Head(s)) < CodePoint(Head(t))
    ELSE StrLess(Tail(s), Tail(t))

\* len(cells) == 1 and cells[0].get('colspan') == '5'
IsCategoryHeader(cells) == Len(cells) = 1 /\ cells[1].colspan = Some("5")

\* "current_category" as a condition: None and the empty text are falsy.
CategoryIsTruthy(category) == category # None /\ category # Some(<<>>)

\* The SkiPass of a data row.
MakeSkiPass(cells) ==
    [ name |-> IF cells[1].h3 # None THEN cells[1].h3[1] ELSE cells[1].text,
      description |-> cells[1].div,
      regular_price |-> clean_price(cells[2].text),
      sakhalin_card_price |-> clean_price(cells[3].text) ]

InData(data, category) == \E i \in 1..Len(data) : data[i].name = category

\* if current_category not in categories_data: categories_data[...] = []
AddCategory(data, category) ==
    IF InData(data, category) THEN data
    ELSE Append(data, [name |-> category, passes |-> <<>>])

\* The pass filed under the category that was added last.
AppendPassToLast(data, category, ski_pass) ==
    [ i \in 1..Len(data) |->
        IF i = Len(data)
        THEN [data[i] EXCEPT !.passes = Append(@, ski_pass)]
        ELSE data[i] ]

\* categories_data[current_category].append(ski_pass)
AppendPass(data, category, ski_pass) ==
    [ i \in 1..Len(data) |->
        IF data[i].name = category
        THEN [data[i] EXCEPT !.passes = Append(@, ski_pass)]
        ELSE data[i] ]

\* One step of a stable sort by name: x goes after the entries that are not
\* greater.
RECURSIVE InsertByName(_, _)
InsertByName(sorted, x) ==
    IF sorted = <<>> THEN <<x>>
    ELSE IF StrLess(x.name, Head(sorted).name) THEN <<x>> \o sorted
    ELSE <<Head(sorted)>> \o InsertByName(Tail(sorted), x)

\* The categories returned in the order of the dict.
Unsorted(categories) == categories

\* sorted(categories, key=lambda x: x.name)
RECURSIVE SortedByName(_)
SortedByName(categories) ==
    IF categories = <<>> THEN <<>>
    ELSE InsertByName(SortedByName(SubSeq(categories, 1, Len(categories) - 1)),
                      categories[Len(categories)])

----------------------------------------------------------------------------
(* The tables parse_ski_pass_table is run on.                              *)

\* Most rows one price table holds.
MaxPassRows == 4

Cell(colspan, text, h3, div) ==
    [colspan |-> colspan, text |-> text, h3 |-> h3, div |-> div]

PlainCell(text) == Cell(None, text, None, None)

HeaderRow(name, background) ==
    [background |-> background, cells |-> <<Cell(Some("5"), name, None, None)>>]

\* A plan with a heading and three cells: 'p', '1 500 ₽', '-'.
PlanP(background) ==
    [ background |-> background,
      cells |-> << Cell(None, <<"p">>, Some(<<"p">>), None),
                   PlainCell(PriceExample), PlainCell(<<"-">>) >> ]

\* A plan without heading, with a description and five cells.
PlanQ ==
    [ background |-> FALSE,
      cells |-> << Cell(None, <<"q", "d">>, None, Some(<<"d">>)),
                   PlainCell(<<"5", "0">>), PlainCell(<<>>),
                   PlainCell(<<>>), PlainCell(<<>>) >> ]

PassRows ==
    { HeaderRow(n, FALSE) : n \in { <<>>, <<"a">>, <<"b">>, <<"a", "b">> } }
    \cup { HeaderRow(<<"a">>, TRUE) }
    \cup { [background |-> FALSE, cells |-> <<Cell(Some("3"), <<"b">>, None, None)>>],
           [background |-> FALSE, cells |-> <<PlainCell(<<"p">>), PlainCell(<<"1">>)>>] }
    \cup { PlanP(FALSE), PlanP(TRUE), PlanQ }

----------------------------------------------------------------------------
(* parse_ski_pass_table as a state machine: one step per row of the        *)
(* table, then the sort and the return.                                    *)

PassInit ==
    /\ TracksIdle /\ LiftIdle /\ PriceIdle /\ WeatherIdle
    /\ RestaurantIdle /\ ZonesIdle
    /\ EcoIdle /\ ManagerIdle
    /\ rows_seen = <<>>
    /\ is_first_category = TRUE
    /\ current_category = None
    /\ categories_data = <<>>
    /\ root = <<>>
    /\ ppc = "scan"

\* One iteration of "for row in table.find_all('tr')".
ScanPassRow(r) ==
    /\ ppc = "scan" /\ Len(rows_seen) < MaxPassRows
    /\ rows_seen' = Append(rows_seen, r)
    /\ IF is_first_category /\ r.background
       THEN /\ is_first_category' = FALSE
            /\ UNCHANGED <<current_category, categories_data>>
       ELSE IF IsCategoryHeader(r.cells)
       THEN /\ current_category' = Some(r.cells[1].text)
            /\ categories_data' = AddCategory(categories_data, r.cells[1].text)
            /\ UNCHANGED is_first_category
       ELSE IF Len(r.cells) >= 3 /\ CategoryIsTruthy(current_category)
       THEN /\ categories_data' =
                 AppendPass(categories_data, current_category[1], MakeSkiPass(r.cells))
            /\ UNCHANGED <<is_first_category, current_category>>
       ELSE UNCHANGED <<is_first_category, current_category, categories_data>>
    /\ UNCHANGED <<root, ppc, offPass>>

\* The rows are exhausted: the categories are sorted by name and returned.
PassReturn ==
    /\ ppc = "scan"
    /\ root' = SortedByName(categories_data)
    /\ ppc' = "done"
    /\ UNCHANGED <<rows_seen, is_first_category, current_category,
                   categories_data, offPass>>

PassNext ==
    \/ \E r \in PassRows : ScanPassRow(r)
    \/ PassReturn

SpecPass == PassInit /\ [][PassNext]_vars

----------------------------------------------------------------------------
(* Properties of the price-plan extractor.                                 *)

CategoryNames == { <<>>, <<"a">>, <<"b">>, <<"a", "b">> }

\* A plan row has three or more cells; a category row is a single cell that
\* spans the five columns.
IsPlanRow(r) == Len(r.cells) >= 3

IsCategoryRow(r) == Len(r.cells) = 1 /\ r.cells[1].colspan = Some("5")

\* The first row of the table whose markup contains 'background', 0 if none.
FirstBackgroundRow(table) ==
    LET bg == { i \in 1..Len(table) : table[i].background }
    IN  IF bg = {} THEN 0 ELSE CHOOSE i \in bg : \A j \in bg : i <= j

\* The name of the category row nearest before row i, the row "skipped" not
\* counted: None when there is none.
CategoryBefore(table, i, skipped) ==
    LET hs == { j \in 1..(i - 1) : j # skipped /\ IsCategoryRow(table[j]) }
    IN  IF hs = {} THEN None
        ELSE Some(table[CHOOSE j \in hs : \A k \in hs : k <= j].cells[1].text)

\* The plans of the first n rows that belong under category c, in row order.
RECURSIVE PlansUnder(_, _, _, _)
PlansUnder(table, c, skipped, n) ==
    IF n = 0 THEN <<>>
    ELSE LET before == PlansUnder(table, c, skipped, n - 1)
         IN  IF /\ IsPlanRow(table[n])
                /\ n # skipped
                /\ CategoryBefore(table, n, skipped) = Some(c)
             THEN Append(before, MakeSkiPass(table[n].cells))
             ELSE before

\* The plans the dict holds under category c.
PassesOf(data, c) ==
    IF InData(data, c)
    THEN data[CHOOSE i \in 1..Len(data) : data[i].name = c].passes
    ELSE <<>>

C10_SortedUniqueCategories ==
    ppc = "done" =>
        \A i \in 1..Len(root), j \in 1..Len(root) :
            i < j => StrLess(root[i].name, root[j].name)

\* The table 'b', 'a', 'b', plan was returned as 'a' without plans, then 'b'
\* with the plan.
C10_Witness ==
    /\ ppc = "done"
    /\ rows_seen = <<HeaderRow(<<"b">>, FALSE), HeaderRow(<<"a">>, FALSE),
                     HeaderRow(<<"b">>, FALSE), PlanP(FALSE)>>
    /\ root = << [name |-> <<"a">>, passes |-> <<>>],
                 [name |-> <<"b">>, passes |-> <<MakeSkiPass(PlanP(FALSE).cells)>>] >>

\* The categories the dict holds after the rows "skipped" was not among: the
\* names of the other category rows.
NamedByRows(table, skipped) ==
    { table[j].cells[1].text :
        j \in { k \in 1..Len(table) : k # skipped /\ IsCategoryRow(table[k]) } }

\* C11: only the very first row of the table can be skipped: every later row
\* is processed as a category row or a plan row, whatever its styling and
\* whether or not the first row was skipped.  The dict then holds the
\* categories and the plans of every row but a first row with 'background'.
C11_OnlyFirstRowSkipped ==
    ppc \in {"scan", "done"} =>
        LET first == IF rows_seen # <<>> /\ rows_seen[1].background THEN 1 ELSE 0
        IN  \A c \in CategoryNames \ {<<>>} :
                /\ InData(categories_data, c) <=> c \in NamedByRows(rows_seen, first)
                /\ PassesOf(categories_data, c) =
                       PlansUnder(rows_seen, c, first, Len(rows_seen))

----------------------------------------------------------------------------
(* Weather extractor: fetch_weather_data of wether.py.                     *)
(* A text is a sequence of words and spaces.  The document is [card]: None *)
(* without a 'weather__current-part' div, else the card                    *)
(* [icon, temp, condition, paragraphs, params], in document order:         *)
(*   icon       None, or Some(src) with src None when the img has no src;  *)
(*   temp       None, or the text of the 'weather-card__temp' paragraph;   *)
(*   condition  None, or the text of the 'weather-condition' span;         *)
(*   paragraphs the texts of the other p elements outside the list;        *)
(*   params     None, or the li elements of the 'weather-card__params'     *)
(*              list, each the sequence of the texts of its p elements.    *)

\* 'Ветер' (wind)
Veter == "Veter"

\* 'восход' (sunrise), 'заход' (sunset), 'влажность' (humidity),
\* 'давление' (pressure)
voskhod == "voskhod"

zakhod == "zakhod"

vlazhnost == "vlazhnost"

davlenie == "davlenie"

\* str.lower() on a word.
LowerWord(w) ==
    CASE w = "Voskhod" -> voskhod [] w = "Zakhod" -> zakhod
      [] w = "Vlazhnost" -> vlazhnost [] w = "Davlenie" -> davlenie
      [] w = "Veter" -> "veter" [] w = "Cookies" -> "cookies"
      [] w = "Severnaya" -> "severnaya" [] w = "Tropa" -> "tropa"
      [] w = "Yug" -> "yug" [] w = "Net" -> "net" [] OTHER -> w

Lower(text) == [i \in 1..Len(text) |-> LowerWord(text[i])]

\* WeatherData(): every field None.
EmptyWeatherData ==
    [ temperature |-> None, condition |-> None, wind |-> None,
      sunrise |-> None, sunset |-> None, humidity |-> None,
      pressure |-> None, icon_url |-> None ]

\* weather_card.find_all('p'): the temperature paragraph, the plain
\* paragraphs, then the paragraphs of the list items.
RECURSIVE Flatten(_)
Flatten(ss) == IF ss = <<>> THEN <<>> ELSE Head(ss) \o Flatten(Tail(ss))

AllParagraphs(card) ==
    (IF card.temp = None THEN <<>> ELSE <<card.temp[1]>>)
    \o card.paragraphs
    \o (IF card.params = None THEN <<>> ELSE Flatten(card.params[1]))

\* [p for p in weather_card.find_all('p') if 'Ветер' in p.text]
WindInfo(card) == SelectSeq(AllParagraphs(card), LAMBDA t : PhraseIn(Veter, t))

\* The body of "for param in params.find_all('li')" on one item.
ParamInto(data, item) ==
    IF Len(item) >= 2
    THEN LET name == Lower(Strip(item[1]))
             value == Strip(item[2])
         IN  IF PhraseIn(voskhod, name) THEN [data EXCEPT !.sunrise = Some(value)]
             ELSE IF PhraseIn(zakhod, name) THEN [data EXCEPT !.sunset = Some(value)]
             ELSE IF PhraseIn(vlazhnost, name) THEN [data EXCEPT !.humidity = Some(value)]
             ELSE IF PhraseIn(davlenie, name) THEN [data EXCEPT !.pressure = Some(value)]
             ELSE data
    ELSE data

RECURSIVE ParamsInto(_, _)
ParamsInto(data, items) ==
    IF items = <<>> THEN data
    ELSE ParamsInto(ParamInto(data, Head(items)), Tail(items))

\* The fields of the card before the list: icon, temperature, condition, wind.
CardFields(card) ==
    [ EmptyWeatherData EXCEPT
        !.icon_url = IF card.icon # None /\ card.icon[1] # None
                     THEN card.icon[1] ELSE None,
        !.temperature = IF card.temp # None THEN Some(Strip(card.temp[1])) ELSE None,
        !.condition = IF card.condition # None
                      THEN Some(Strip(card.condition[1])) ELSE None,
        !.wind = IF WindInfo(card) # <<>>
                 THEN Some(Strip(WindInfo(card)[1])) ELSE None ]

\* An extraction that gives up on the rest when the temperature is missing.
ExtractUpToMissingTemp(card) ==
    IF card.temp = None
    THEN [ EmptyWeatherData EXCEPT
             !.icon_url = IF card.icon # None /\ card.icon[1] # None
                          THEN card.icon[1] ELSE None ]
    ELSE IF card.params = None THEN CardFields(card)
    ELSE ParamsInto(CardFields(card), card.params[1])

\* The WeatherData built from a card (wether.py:44-84).
ExtractWeather(card) ==
    IF card.params = None THEN CardFields(card)
    ELSE ParamsInto(CardFields(card), card.params[1])

\* The exceptions of fetch_weather_data: class and, for an HTTPException,
\* status and detail.
RequestException == [class |-> "RequestException", status |-> 0, detail |-> ""]

HTTPException(status, detail) ==
    [class |-> "HTTPException", status |-> status, detail |-> detail]

\* The except clauses of wether.py:86-89: a RequestException becomes the 503,
\* every other Exception, an HTTPException raised in the try block too,
\* becomes the 500.
Handler(exc) ==
    IF exc.class = "RequestException"
    THEN HTTPException(503, "Error fetching weather data")
    ELSE HTTPException(500, "Unexpected error")

----------------------------------------------------------------------------
(* The weather documents.                                                  *)

\* Most items one parameter list holds.
MaxParams == 2

ParamItems ==
    { << <<"Voskhod">> >>,
      << <<" ", "Voskhod">>, <<"7", " ">> >>,
      << <<"Zakhod", " ", "solntsa">>, <<"19">> >>,
      << <<"Vlazhnost">>, <<"80">> >>,
      << <<"Davlenie">>, <<"760">>, <<"mm">> >>,
      << <<"Voskhod", " ", "zakhod">>, <<"8">> >>,
      << <<"Veter">>, <<"5">> >> }

ParamLists == UNION { [1..n -> ParamItems] : n \in 0..MaxParams }

WeatherCards ==
    { [icon |-> i, temp |-> t, condition |-> c, paragraphs |-> ps, params |-> pr] :
        i \in {None, Some(None), Some(Some("icon.png"))},
        t \in {None, Some(<<" ", "-5">>), Some(<<"Veter", " ", "3">>)},
        c \in {None, Some(<<"Yasno">>)},
        ps \in { <<>>, << <<"x">>, <<"Veter", " ", "7", " ">> >> },
        pr \in {None} \cup { Some(l) : l \in ParamLists } }

WeatherDocs == { [card |-> None] } \cup { [card |-> Some(c)] : c \in WeatherCards }

----------------------------------------------------------------------------
(* fetch_weather_data as a state machine.                                  *)

WeatherInit ==
    /\ TracksIdle /\ LiftIdle /\ PriceIdle /\ PassIdle
    /\ RestaurantIdle /\ ZonesIdle
    /\ EcoIdle /\ ManagerIdle
    /\ w_doc = None
    /\ weather_data = None
    /\ w_exc = None
    /\ w_error = None
    /\ wpc = "fetch"

\* requests.get or raise_for_status raises.
WeatherFetchFails ==
    /\ wpc = "fetch"
    /\ w_exc' = Some(RequestException)
    /\ wpc' = "except"
    /\ UNCHANGED <<w_doc, weather_data, w_error, offWeather>>

\* The page arrives and is parsed.
WeatherFetchOk(doc) ==
    /\ wpc = "fetch"
    /\ w_doc' = Some(doc)
    /\ wpc' = "card"
    /\ UNCHANGED <<weather_data, w_exc, w_error, offWeather>>

\* "if not weather_card: raise HTTPException(404, ...)", inside the try.
WeatherCardMissing ==
    /\ wpc = "card" /\ w_doc[1].card = None
    /\ w_exc' = Some(HTTPException(404, "Weather data not found"))
    /\ wpc' = "except"
    /\ UNCHANGED <<w_doc, weather_data, w_error, offWeather>>

\* The fields are read and the WeatherData is returned.
WeatherExtract ==
    /\ wpc = "card" /\ w_doc[1].card # None
    /\ weather_data' = Some(ExtractWeather(w_doc[1].card[1]))
    /\ wpc' = "returned"
    /\ UNCHANGED <<w_doc, w_exc, w_error, offWeather>>

\* The except clauses; what they raise leaves the function and, through
\* get_weather, reaches the caller.
WeatherExcept ==
    /\ wpc = "except"
    /\ w_error' = Some(Handler(w_exc[1]))
    /\ w_exc' = None
    /\ wpc' = "raised"
    /\ UNCHANGED <<w_doc, weather_data, offWeather>>

WeatherNext ==
    \/ WeatherFetchFails
    \/ \E doc \in WeatherDocs : WeatherFetchOk(doc)
    \/ WeatherCardMissing
    \/ WeatherExtract
    \/ WeatherExcept

SpecWeather == WeatherInit /\ [][WeatherNext]_vars

----------------------------------------------------------------------------
(* Properties of the weather extractor.                                    *)

\* C12: a fetched document without the current-weather container gives no
\* WeatherData; the caller gets the failure of the container check, status
\* 404 'Weather data not found', not the 503 of a fetch failure nor the 500
\* of an unexpected error.
C12_MissingCardIs404 ==
    (wpc = "raised" /\ w_doc # None /\ w_doc[1].card = None) =>
        /\ weather_data = None
        /\ w_error = Some(HTTPException(404, "Weather data not found"))

\* The list items with two paragraphs whose lowered name has the keyword,
\* and none of the keywords tried before it.
ItemsFor(items, keyword, earlier) ==
    { i \in 1..Len(items) :
        /\ Len(items[i]) >= 2
        /\ PhraseIn(keyword, Lower(items[i][1]))
        /\ \A k \in earlier : ~PhraseIn(k, Lower(items[i][1])) }

\* The value of the last such item, None if there is none.
LastValue(card, keyword, earlier) ==
    IF card.params = None \/ ItemsFor(card.params[1], keyword, earlier) = {}
    THEN None
    ELSE LET hits == ItemsFor(card.params[1], keyword, earlier)
             last == CHOOSE i \in hits : \A j \in hits : j <= i
         IN  Some(Strip(card.params[1][last][2]))

\* C13: with the container present a WeatherData is returned and no failure
\* is raised; each field is read from its own element whatever the other
\* elements are: the src of the icon, the trimmed text of the temperature and
\* of the condition, the first paragraph naming the wind, the value of the
\* last list item naming the parameter; a field whose element is missing is
\* absent and the other fields are populated all the same.
C13_FieldsIndependent ==
    (wpc = "returned") =>
        LET card == w_doc[1].card[1]
            data == weather_data[1]
            winds == { i \in 1..Len(AllParagraphs(card)) :
                         PhraseIn(Veter, AllParagraphs(card)[i]) }
        IN  /\ w_error = None
            /\ data.icon_url = (IF card.icon \in {None, Some(None)} THEN None
                                ELSE card.icon[1])
            /\ data.temperature = (IF card.temp = None THEN None
                                   ELSE Some(Strip(card.temp[1])))
            /\ data.condition = (IF card.condition = None THEN None
                                 ELSE Some(Strip(card.condition[1])))
            /\ data.wind =
                 (IF winds = {} THEN None
                  ELSE Some(Strip(AllParagraphs(card)[
                         CHOOSE i \in winds : \A j \in winds : i <= j])))
            /\ data.sunrise = LastValue(card, voskhod, {})
            /\ data.sunset = LastValue(card, zakhod, {voskhod})
            /\ data.humidity = LastValue(card, vlazhnost, {voskhod, zakhod})
            /\ data.pressure = LastValue(card, davlenie, {voskhod, zakhod, vlazhnost})

\* A card without temperature element and with every other element was
\* returned with the temperature absent and the other fields set.
C13_Witness ==
    /\ wpc = "returned"
    /\ w_doc[1].card[1].temp = None
    /\ weather_data[1].temperature = None
    /\ weather_data[1].icon_url = Some("icon.png")
    /\ weather_data[1].condition = Some(<<"Yasno">>)
    /\ weather_data[1].wind = Some(<<"Veter", " ", "7">>)
    /\ weather_data[1].sunrise = Some(<<"7">>)
    /\ weather_data[1].sunset = Some(<<"19">>)

----------------------------------------------------------------------------
(* Restaurant extractor: parse_single_restaurant of                        *)
(* restaurant_parser_api.py.  The document is what the searches of the     *)
(* code find in it, in document order:                                     *)
(*   title, address, phone, schedule                                       *)
(*              None, or the text of the element the search chain of the   *)
(*              field returns;                                             *)
(*   formatted  None, or the paragraph texts of the 'data-formatted-text'  *)
(*              div;                                                       *)
(*   itemprop_blocks, class_blocks, content_blocks                         *)
(*              the div/p elements with itemprop 'description', of class   *)
(*              'description', and the 'page__content' divs; a block is    *)
(*              [name, ps]: its tag and the texts of its paragraphs (of    *)
(*              itself for a p);                                           *)
(*   imgs       the img elements, [classes, src];                          *)
(*   divs       the div elements with a class, [classes, a, img]: the href *)
(*              of the first a inside and the src of the first img inside; *)
(*   crumbs     the a elements of a breadcrumb class, [text, href].        *)

\* '©', '®', '™'
CopyrightSign == "(c)"

RegisteredSign == "(r)"

TradeMarkSign == "(tm)"

\* Python truth of an attribute or text: neither None nor ''.
Truthy(opt) == opt # None /\ opt[1] # <<>>

Range(seq) == { seq[i] : i \in 1..Len(seq) }

\* RestaurantData(): every field at its default.
EmptyRestaurantData ==
    [ name |-> None, schedule |-> None, address |-> None, phone |-> None,
      description |-> <<>>, images |-> <<>>, breadcrumbs |-> <<>> ]

\* ' '.join(text.strip().split())
RECURSIVE JoinWords(_)
JoinWords(words) ==
    IF Len(words) <= 1 THEN words
    ELSE <<Head(words), " ">> \o JoinWords(Tail(words))

NormalizeSpaces(text) == JoinWords(SelectSeq(text, LAMBDA c : ~IsSpace(c)))

\* any(skip in text.lower() for skip in ['©', '®', '™', 'cookies'])
IsNoise(text) ==
    \E skip \in {CopyrightSign, RegisteredSign, TradeMarkSign, "cookies"} :
        PhraseIn(skip, Lower(text))

\* A first loop that appends whatever is not empty.
AppendNonEmpty(descriptions, p) ==
    IF Strip(p) # <<>> THEN Append(descriptions, Strip(p)) ELSE descriptions

\* The body of the loop over the paragraphs of the formatted text.
AppendNew(descriptions, p) ==
    IF Strip(p) # <<>> /\ Strip(p) \notin Range(descriptions)
    THEN Append(descriptions, Strip(p)) ELSE descriptions

\* The body of the loop over the paragraphs of a description block.
AppendNewClean(descriptions, p) ==
    IF Strip(p) # <<>> /\ Strip(p) \notin Range(descriptions) /\ ~IsNoise(Strip(p))
    THEN Append(descriptions, Strip(p)) ELSE descriptions

RECURSIVE FormattedInto(_, _)
FormattedInto(descriptions, ps) ==
    IF ps = <<>> THEN descriptions
    ELSE FormattedInto(AppendNew(descriptions, Head(ps)), Tail(ps))

RECURSIVE BlockInto(_, _)
BlockInto(descriptions, ps) ==
    IF ps = <<>> THEN descriptions
    ELSE BlockInto(AppendNewClean(descriptions, Head(ps)), Tail(ps))

RECURSIVE BlocksInto(_, _)
BlocksInto(descriptions, bs) ==
    IF bs = <<>> THEN descriptions
    ELSE BlocksInto(BlockInto(descriptions, Head(bs).ps), Tail(bs))

DescriptionBlocks(doc) ==
    doc.itemprop_blocks \o doc.class_blocks \o doc.content_blocks

Descriptions(doc) ==
    BlocksInto(IF doc.formatted = None THEN <<>>
               ELSE FormattedInto(<<>>, doc.formatted[1]),
               DescriptionBlocks(doc))

\* base_url
RestaurantBaseUrl == <<"https://", "ski-gv.ru">>

\* src.lstrip('/')
RECURSIVE LStripSlash(_)
LStripSlash(src) ==
    IF src # <<>> /\ Head(src) = "/" THEN LStripSlash(Tail(src)) ELSE src

\* The src made absolute.
Resolve(src) ==
    IF Head(src) \in {"http://", "https://"} THEN src
    ELSE RestaurantBaseUrl \o <<"/">> \o LStripSlash(src)

\* "if src and src not in images": the src as written is looked up in the
\* list of resolved URLs.
AddImage(images, src) ==
    IF Truthy(src) /\ src[1] \notin Range(images)
    THEN Append(images, Resolve(src[1])) ELSE images

\* 'photo' in x.lower() or 'image' in x.lower(), and the like, on a class.
ClassHas(class, word) ==
    <<class, word>> \in { <<"page__main-image", "image">>, <<"photo", "photo">>,
                          <<"gallery", "gallery">>, <<"image-box", "image">> }

HasClassWith(el, words) == \E c \in el.classes : \E w \in words : ClassHas(c, w)

\* (img_link.get('href') or img_link.get('src')) of (img.find('a') or
\* img.find('img')); an a element carries no src.
DivSrc(div) ==
    IF div.a # None THEN (IF Truthy(div.a[1]) THEN div.a[1] ELSE None)
    ELSE IF div.img # None THEN div.img[1]
    ELSE None

\* all_images: the img of class 'center', the img of a photo/image class,
\* the div of a gallery/image class; an element is [div, src].
AllImages(doc) ==
    [i \in 1..Len(SelectSeq(doc.imgs, LAMBDA e : "center" \in e.classes)) |->
        SelectSeq(doc.imgs, LAMBDA e : "center" \in e.classes)[i].src]
    \o [i \in 1..Len(SelectSeq(doc.imgs, LAMBDA e : HasClassWith(e, {"photo", "image"}))) |->
        SelectSeq(doc.imgs, LAMBDA e : HasClassWith(e, {"photo", "image"}))[i].src]
    \o [i \in 1..Len(SelectSeq(doc.divs, LAMBDA e : HasClassWith(e, {"gallery", "image"}))) |->
        DivSrc(SelectSeq(doc.divs, LAMBDA e : HasClassWith(e, {"gallery", "image"}))[i])]

RECURSIVE ImagesInto(_, _)
ImagesInto(images, srcs) ==
    IF srcs = <<>> THEN images
    ELSE ImagesInto(AddImage(images, Head(srcs)), Tail(srcs))

\* soup.find('img', class_='page__main-image') and its src, if any.
MainImages(doc) ==
    LET mains == SelectSeq(doc.imgs, LAMBDA e : "page__main-image" \in e.classes)
    IN  IF mains # <<>> /\ Truthy(mains[1].src)
        THEN <<Resolve(mains[1].src[1])>> ELSE <<>>

Images(doc) == ImagesInto(MainImages(doc), AllImages(doc))

Breadcrumbs(doc) ==
    LET linked == SelectSeq(doc.crumbs, LAMBDA a : Truthy(a.href))
    IN  [i \in 1..Len(linked) |->
            [text |-> Strip(linked[i].text), link |-> linked[i].href[1]]]

StrippedOrNone(el) == IF el # None THEN Some(Strip(el[1])) ELSE None


RECURSIVE Reverse(_)
Reverse(seq) == IF seq = <<>> THEN <<>> ELSE Append(Reverse(Tail(seq)), Head(seq))

\* An extractor whose list order depends on the call, not on the document.
ParseRestaurantByCall(doc) ==
    [ name |-> StrippedOrNone(doc.title),
      schedule |-> IF doc.schedule # None
                   THEN Some(NormalizeSpaces(doc.schedule[1])) ELSE None,
      address |-> StrippedOrNone(doc.address),
      phone |-> StrippedOrNone(doc.phone),
      description |-> Descriptions(doc),
      images |-> IF Len(r_results) % 2 = 0 THEN Images(doc) ELSE Reverse(Images(doc)),
      breadcrumbs |-> Breadcrumbs(doc) ]

\* The RestaurantData built from a fetched document
\* (restaurant_parser_api.py:40-157).
ParseRestaurant(doc) ==
    [ name |-> StrippedOrNone(doc.title),
      schedule |-> IF doc.schedule # None
                   THEN Some(NormalizeSpaces(doc.schedule[1])) ELSE None,
      address |-> StrippedOrNone(doc.address),
      phone |-> StrippedOrNone(doc.phone),
      description |-> Descriptions(doc),
      images |-> Images(doc),
      breadcrumbs |-> Breadcrumbs(doc) ]

----------------------------------------------------------------------------
(* The restaurant documents.                                               *)

\* Most paragraphs one container holds.
MaxParagraphs == 2

\* Most img elements one document holds.
MaxImgs == 2

\* Most calls of parse_single_restaurant on the URL.
MaxCalls == 2

Uyutno == <<"Uyutno">>

Vkusno == <<"Vkusno">>

DescTexts ==
    { Uyutno, <<" ", "Uyutno">>, Vkusno, <<CopyrightSign, " ", "2024">>, <<" ">> }

ParagraphLists == UNION { [1..n -> DescTexts] : n \in 0..MaxParagraphs }

Block(name, ps) == [name |-> name, ps |-> ps]

PlainDoc ==
    [ title |-> None, address |-> None, phone |-> None, schedule |-> None,
      formatted |-> None, itemprop_blocks |-> <<>>, class_blocks |-> <<>>,
      content_blocks |-> <<>>, imgs |-> <<>>, divs |-> <<>>, crumbs |-> <<>> ]

BlockTriples ==
    { << <<>>, <<>>, <<>> >>,
      << <<Block("p", <<Uyutno>>)>>, <<>>, <<>> >>,
      << <<Block("div", <<Vkusno, <<TradeMarkSign>>, <<"Cookies">> >>)>>, <<>>,
         <<Block("div", <<Uyutno>>)>> >>,
      << <<>>, <<Block("p", << <<RegisteredSign, "Bar">> >>)>>,
         <<Block("div", <<Vkusno>>), Block("div", <<Uyutno, Vkusno>>)>> >> }

DescriptionDocs ==
    { [PlainDoc EXCEPT !.formatted = f, !.itemprop_blocks = b[1],
                       !.class_blocks = b[2], !.content_blocks = b[3]] :
        f \in {None} \cup { Some(l) : l \in ParagraphLists }, b \in BlockTriples }
    \cup
    { [PlainDoc EXCEPT !.formatted = f, !.itemprop_blocks = <<Block("div", l)>>,
                       !.class_blocks = c] :
        f \in {None, Some(<<Uyutno>>)}, l \in ParagraphLists,
        c \in {<<>>, <<Block("p", <<Vkusno>>)>>} }

RelA == <<"/", "a.png">>

AbsA == <<"https://", "ski-gv.ru", "/", "a.png">>

Img(classes, src) == [classes |-> classes, src |-> src]

ImgElems ==
    { Img(c, Some(u)) :
        c \in { {"page__main-image"}, {"center", "photo"} }, u \in {RelA, AbsA} }
    \cup { Img({"logo"}, Some(RelA)), Img({"photo"}, None), Img({"photo"}, Some(<<>>)),
           Img({"photo"}, Some(<<"a.png">>)), Img({"center"}, Some(<<"/", "b.png">>)) }

Div(classes, a, img) == [classes |-> classes, a |-> a, img |-> img]

DivElems ==
    { Div({"gallery"}, a, i) :
        a \in {None, Some(None), Some(Some(RelA))},
        i \in {None, Some(Some(AbsA))} }
    \cup { Div({"image-box"}, None, Some(Some(RelA))),
           Div({"footer"}, Some(Some(RelA)), None) }

ImageDocs ==
    { [PlainDoc EXCEPT !.imgs = l] :
        l \in UNION { [1..n -> ImgElems] : n \in 0..MaxImgs } }
    \cup
    { [PlainDoc EXCEPT !.imgs = l, !.divs = d] :
        l \in {<<>>, <<Img({"page__main-image"}, Some(RelA))>>},
        d \in { <<e>> : e \in DivElems } }

Crumb(text, href) == [text |-> text, href |-> href]

FieldDocs ==
    { [PlainDoc EXCEPT !.title = t, !.address = a, !.phone = ph, !.schedule = sc,
                       !.crumbs = cr] :
        t \in {None, Some(<<" ", "Bar", " ">>)},
        a \in {None, Some(<<"stantsiya">>)},
        ph \in {None, Some(<<"+7", " ">>)},
        sc \in {None, Some(<<" ", "Pn-Vs", " ", " ", "10:00">>)},
        cr \in { <<>>,
                 <<Crumb(<<"Glavnaya", " ">>, Some(<<"/">>)), Crumb(<<"x">>, None)>>,
                 <<Crumb(<<"x">>, Some(<<>>)), Crumb(<<"Bar">>, Some(RelA))>> } }

RestaurantDocs == DescriptionDocs \cup ImageDocs \cup FieldDocs

----------------------------------------------------------------------------
(* parse_single_restaurant, called up to MaxCalls times on one URL whose   *)
(* document does not change.                                               *)

\* The outcome of one call: whether its fetch succeeded, how it ended, and
\* the RestaurantData it returned.
Returned(fetched, data) == [fetched |-> fetched, outcome |-> "returned", data |-> data]

RestaurantInit ==
    /\ TracksIdle /\ LiftIdle /\ PriceIdle /\ PassIdle /\ WeatherIdle
    /\ ZonesIdle /\ EcoIdle /\ ManagerIdle
    /\ r_doc = None
    /\ r_results = <<>>
    /\ rpc = "fetch"

\* requests.get or raise_for_status raises: the except clause prints and
\* returns RestaurantData().
RestaurantFetchFails ==
    /\ rpc = "fetch"
    /\ r_results' = Append(r_results, Returned(FALSE, EmptyRestaurantData))
    /\ rpc' = "returned"
    /\ UNCHANGED <<r_doc, offRestaurant>>

\* The page arrives.
RestaurantFetchOk(doc) ==
    /\ rpc = "fetch"
    /\ r_doc \in {None, Some(doc)}
    /\ r_doc' = Some(doc)
    /\ rpc' = "parse"
    /\ UNCHANGED <<r_results, offRestaurant>>

\* The fields are read and the RestaurantData is returned.
RestaurantParse ==
    /\ rpc = "parse"
    /\ r_results' = Append(r_results, Returned(TRUE, ParseRestaurant(r_doc[1])))
    /\ rpc' = "returned"
    /\ UNCHANGED <<r_doc, offRestaurant>>

\* The next call on the same URL.
RestaurantCall ==
    /\ rpc = "returned"
    /\ Len(r_results) < MaxCalls
    /\ rpc' = "fetch"
    /\ UNCHANGED <<r_doc, r_results, offRestaurant>>

RestaurantNext ==
    \/ RestaurantFetchFails
    \/ \E doc \in (IF r_doc = None THEN RestaurantDocs ELSE {r_doc[1]}) :
           RestaurantFetchOk(doc)
    \/ RestaurantParse
    \/ RestaurantCall

SpecRestaurant == RestaurantInit /\ [][RestaurantNext]_vars

----------------------------------------------------------------------------
(* Properties of the restaurant extractor.                                 *)

\* The calls so far that parsed the document.
Parsed == { i \in 1..Len(r_results) : r_results[i].fetched }

\* C14: the image list of every result has no repeated element, the elements
\* being the resolved absolute URLs: an image referenced more than once, by
\* the same relative or absolute src, is listed once.
C14_ImagesUnique ==
    \A k \in Parsed :
        LET images == r_results[k].data.images
        IN  \A i, j \in 1..Len(images) : i # j => images[i] # images[j]

\* C15: no paragraph of the description list of a result contains one of the
\* markers '©', '®', '™', whichever container it was collected from.
C15_NoNoiseParagraph ==
    \A k \in Parsed :
        \A text \in Range(r_results[k].data.description) :
            \A mark \in {CopyrightSign, RegisteredSign, TradeMarkSign} :
                ~PhraseIn(mark, text)

\* The trimmed paragraph texts in collection order: the formatted text, then
\* the description blocks.
Collected(doc) ==
    LET ps == (IF doc.formatted = None THEN <<>> ELSE doc.formatted[1])
              \o Flatten([i \in 1..Len(DescriptionBlocks(doc)) |->
                            DescriptionBlocks(doc)[i].ps])
    IN  [i \in 1..Len(ps) |-> Strip(ps[i])]

FirstSeen(seen, text) ==
    CHOOSE i \in 1..Len(seen) : seen[i] = text /\ \A j \in 1..(i - 1) : seen[j] # text

\* C16: the description list of a result has no two equal texts, every text
\* is a collected paragraph, and the texts stand in the order in which they
\* were first seen, the formatted text before the other blocks.
C16_DescriptionsUniqueInOrder ==
    \A k \in Parsed :
        LET d == r_results[k].data.description
            seen == Collected(r_doc[1])
        IN  \A i \in 1..Len(d) :
                /\ d[i] \in Range(seen)
                /\ \A j \in (i + 1)..Len(d) :
                       /\ d[i] # d[j]
                       /\ FirstSeen(seen, d[i]) < FirstSeen(seen, d[j])

\* A document repeating a paragraph in the formatted text and in a
\* description block was parsed, and the paragraph is listed once.
C16_Witness ==
    /\ rpc = "returned"
    /\ Parsed # {}
    /\ r_doc[1].formatted = Some(<<Vkusno, <<" ", "Uyutno">> >>)
    /\ r_doc[1].itemprop_blocks = <<Block("p", <<Uyutno>>)>>
    /\ \A k \in Parsed : r_results[k].data.description = <<Vkusno, Uyutno>>

C18_FetchFailureSurfaced ==
    \A k \in 1..Len(r_results) :
        ~r_results[k].fetched => r_results[k].outcome = "raised"

----------------------------------------------------------------------------
(* The multi-zone crawl: get_zones of main.py, main2.py and winter.py.     *)
(* The index page is [primary, select]: the links the class selectors      *)
(* find, and None or the links of class 'option' inside the 'gv-select'    *)
(* div.  A link is [text, href].  The fetch of a zone page by parse_tracks *)
(* either fails or gives the list of the tracks of the page.               *)

BASE_URL == <<"https://", "ski-gv.ru">>

\* A resolution that takes the links of both searches.
ZoneLinksMerged(doc) ==
    doc.primary \o (IF doc.select # None THEN doc.select[1] ELSE <<>>)

\* The links the crawl visits: the primary set, else those of 'gv-select'.
ZoneLinks(doc) ==
    IF doc.primary # <<>> THEN doc.primary
    ELSE IF doc.select # None THEN doc.select[1]
    ELSE <<>>

\* text.split('(')[0]
RECURSIVE BeforeParen(_)
BeforeParen(text) ==
    IF text = <<>> \/ Head(text) = "(" THEN <<>>
    ELSE <<Head(text)>> \o BeforeParen(Tail(text))

ZoneName(link) ==
    IF PhraseIn("(", Strip(link.text)) THEN Strip(BeforeParen(Strip(link.text)))
    ELSE Strip(link.text)

ZoneUrl(link) == BASE_URL \o link.href

ZoneRecord(link, tracks_) ==
    [name |-> ZoneName(link), url |-> ZoneUrl(link), tracks |-> tracks_]

\* The events of the history: time.sleep(1), and the request of parse_tracks
\* for the zone of index i, with its success.
SleepEvent == [kind |-> "sleep", zone |-> 0, ok |-> TRUE]

FetchEvent(i, ok) == [kind |-> "fetch", zone |-> i, ok |-> ok]

\* A loop that does not pause.
NoSleep(log) == log

\* time.sleep(1)
Sleep1(log) == Append(log, SleepEvent)

\* requests.get(url) in parse_tracks, called from the loop.
Fetch(log, i, ok) == Append(log, FetchEvent(i, ok))

\* How a call ends: a value returned (None for Python's None) or an
\* exception raised.
ZReturned(value) == [kind |-> "returned", value |-> value, exc |-> None]

ZRaised(exc) == [kind |-> "raised", value |-> None, exc |-> Some(exc)]

PlainException(detail) == [class |-> "Exception", status |-> 0, detail |-> detail]

\* The index request fails: main.py returns None, main2.py raises an
\* Exception, winter.py an HTTPException 500.
IndexFailure(variant_) ==
    CASE variant_ = "main" -> ZReturned(None)
      [] variant_ = "main2" -> ZRaised(PlainException("Oshibka pri poluchenii zon"))
      [] OTHER -> ZRaised(HTTPException(500, "Oshibka pri poluchenii zon"))

\* No zone link on the index page.
NoZones(variant_) ==
    CASE variant_ = "main" -> ZReturned(None)
      [] variant_ = "main2" -> ZRaised(PlainException("Zony ne naydeny"))
      [] OTHER -> ZRaised(HTTPException(404, "Zony ne naydeny"))

\* What parse_tracks raises into the loop when the zone request fails;
\* no except clause of get_zones catches it.
TracksFailure(variant_) ==
    IF variant_ = "main2" THEN PlainException("Oshibka pri parsinge trass")
    ELSE HTTPException(500, "Oshibka pri parsinge trass")

\* The season argument of get_zones of main.py.
Seasons == {"winter", "summer"}

\* requests.get(url): no cookie, and no timeout argument.
RequestsGet(url) == [url |-> url, cookie |-> None, timeout |-> None]

\* session.get(url): the cookies of the session, and no timeout argument.
SessionGet(session, url) == [url |-> url, cookie |-> session, timeout |-> None]

\* main_url
IndexUrl == BASE_URL \o <<"/hills/1/1/">>

\* The requests up to the index page: main.py asks the session for the main
\* page and then for the index page, main2.py and winter.py ask requests for
\* the index page.
IndexRequests(variant_, session) ==
    IF variant_ = "main"
    THEN <<SessionGet(session, BASE_URL), SessionGet(session, IndexUrl)>>
    ELSE <<RequestsGet(IndexUrl)>>

----------------------------------------------------------------------------
(* The index pages and the zone pages.                                     *)

\* Most links of one index page.
MaxZones == 3

Link(text, href) == [text |-> text, href |-> href]

Links ==
    { Link(<<"A">>, <<"/", "a">>),
      Link(<<" ", "B", " ", "(", "x", ")">>, <<"/", "b">>),
      Link(<<"(", "x", ")">>, <<"/", "c">>) }

IndexDocs ==
    { [primary |-> l, select |-> None] :
        l \in UNION { [1..n -> Links] : n \in 0..MaxZones } }
    \cup
    { [primary |-> <<>>, select |-> sel] :
        sel \in { Some(<<>>), Some(<<Link(<<"A">>, <<"/", "a">>)>>) } }
    \cup
    { [primary |-> <<Link(<<"A">>, <<"/", "a">>)>>, select |-> sel] :
        sel \in { Some(<<>>),
                  Some(<<Link(<<"A">>, <<"/", "a">>), Link(<<"C">>, <<"/", "c">>)>>) } }

\* The track lists a zone page gives.
ZoneTracks == { <<>>, <<"t1">> }

----------------------------------------------------------------------------
(* get_zones as a state machine.                                           *)

ZonesInit ==
    /\ TracksIdle /\ LiftIdle /\ PriceIdle /\ PassIdle /\ WeatherIdle
    /\ RestaurantIdle /\ EcoIdle /\ ManagerIdle
    /\ z_variant \in Variants
    /\ z_index = None
    /\ zones = <<>>
    /\ z_next = 1
    /\ zones_data = <<>>
    /\ z_log = <<>>
    /\ z_result = None
    /\ z_session = None
    /\ z_requests = <<>>
    /\ zpc = IF z_variant = "main" THEN "session" ELSE "index"

\* main.py: requests.Session() and session.cookies.set('season', season).
ZoneSession(season) ==
    /\ zpc = "session"
    /\ z_session' = Some(season)
    /\ zpc' = "index"
    /\ UNCHANGED <<z_variant, z_index, zones, z_next, zones_data, z_log, z_result,
                   z_requests, offZones>>

\* The n-th request for the index page fails: that of the index page, or
\* in main.py that of the main page before it.
ZoneIndexFails(n) ==
    /\ zpc = "index"
    /\ n \in 1..Len(IndexRequests(z_variant, z_session))
    /\ z_requests' = SubSeq(IndexRequests(z_variant, z_session), 1, n)
    /\ z_result' = Some(IndexFailure(z_variant))
    /\ zpc' = "done"
    /\ UNCHANGED <<z_variant, z_index, zones, z_next, zones_data, z_log, z_session,
                   offZones>>

\* The index page arrives and has zone links.
ZoneIndexOk(doc) ==
    /\ zpc = "index"
    /\ ZoneLinks(doc) # <<>>
    /\ z_index' = Some(doc)
    /\ zones' = ZoneLinks(doc)
    /\ z_requests' = IndexRequests(z_variant, z_session)
    /\ zpc' = "loop"
    /\ UNCHANGED <<z_variant, z_next, zones_data, z_log, z_result, z_session,
                   offZones>>

\* The index page arrives without zone links.
ZoneIndexEmpty(doc) ==
    /\ zpc = "index"
    /\ ZoneLinks(doc) = <<>>
    /\ z_index' = Some(doc)
    /\ z_requests' = IndexRequests(z_variant, z_session)
    /\ z_result' = Some(NoZones(z_variant))
    /\ zpc' = "done"
    /\ UNCHANGED <<z_variant, zones, z_next, zones_data, z_log, z_session, offZones>>

\* One turn of the loop whose zone page arrives with these tracks: main.py
\* requests, appends and sleeps; main2.py and winter.py sleep, request and
\* append, main2.py only a zone with tracks.
ZoneFetched(tracks_) ==
    /\ zpc = "loop"
    /\ z_next <= Len(zones)
    /\ z_log' = IF z_variant = "main" THEN Sleep1(Fetch(z_log, z_next, TRUE))
                ELSE Fetch(Sleep1(z_log), z_next, TRUE)
    /\ zones_data' = IF z_variant = "main2" /\ tracks_ = <<>> THEN zones_data
                     ELSE Append(zones_data, ZoneRecord(zones[z_next], tracks_))
    /\ z_next' = z_next + 1
    /\ z_requests' = Append(z_requests, RequestsGet(ZoneUrl(zones[z_next])))
    /\ UNCHANGED <<z_variant, z_index, zones, z_result, z_session, zpc, offZones>>

\* One turn of the loop whose zone request fails: parse_tracks of main.py
\* returns [] and the turn goes on as with a page without tracks; that of
\* main2.py and winter.py raises, which ends get_zones.
ZoneFetchFails ==
    /\ zpc = "loop"
    /\ z_next <= Len(zones)
    /\ IF z_variant = "main"
       THEN /\ z_log' = Sleep1(Fetch(z_log, z_next, FALSE))
            /\ zones_data' = Append(zones_data, ZoneRecord(zones[z_next], <<>>))
            /\ z_next' = z_next + 1
            /\ UNCHANGED <<z_result, zpc>>
       ELSE /\ z_log' = Fetch(Sleep1(z_log), z_next, FALSE)
            /\ z_result' = Some(ZRaised(TracksFailure(z_variant)))
            /\ zpc' = "done"
            /\ UNCHANGED <<zones_data, z_next>>
    /\ z_requests' = Append(z_requests, RequestsGet(ZoneUrl(zones[z_next])))
    /\ UNCHANGED <<z_variant, z_index, zones, z_session, offZones>>

\* The loop is over: zones_data is returned.
ZonesReturn ==
    /\ zpc = "loop"
    /\ z_next > Len(zones)
    /\ z_result' = Some(ZReturned(Some(zones_data)))
    /\ zpc' = "done"
    /\ UNCHANGED <<z_variant, z_index, zones, z_next, zones_data, z_log, z_session,
                   z_requests, offZones>>

ZonesNext ==
    \/ \E season \in Seasons : ZoneSession(season)
    \/ \E n \in 1..2 : ZoneIndexFails(n)
    \/ \E doc \in IndexDocs : ZoneIndexOk(doc)
    \/ \E doc \in IndexDocs : ZoneIndexEmpty(doc)
    \/ \E tracks_ \in ZoneTracks : ZoneFetched(tracks_)
    \/ ZoneFetchFails
    \/ ZonesReturn

SpecZones == ZonesInit /\ [][ZonesNext]_vars

----------------------------------------------------------------------------
(* Properties of the crawl.                                                *)

\* The positions of the zone requests in the history, and those that
\* succeeded.
Fetches == { p \in 1..Len(z_log) : z_log[p].kind = "fetch" }

FetchedOk == { p \in Fetches : z_log[p].ok }

\* C19: a crawl over N zone links of which some fail visits all N zones and
\* returns a Zone record for each zone fetched, and none for a zone that
\* failed; a zone failure does not end the crawl in a failure.
C19_ZoneFailuresIsolated ==
    (zpc = "done" /\ zones # <<>>) =>
        /\ z_result[1].kind = "returned"
        /\ z_result[1].value # None
        /\ { z_log[p].zone : p \in Fetches } = 1..Len(zones)
        /\ Len(z_result[1].value[1]) = Cardinality(FetchedOk)

\* C20: the zone pages are requested one at a time in the order of the
\* links, the k-th request is for the k-th link, and between two consecutive
\* requests there is exactly one sleep.
C20_PacedInOrder ==
    \A p \in Fetches :
        /\ z_log[p].zone = Cardinality({ q \in Fetches : q <= p })
        /\ \A q \in Fetches :
               (p < q /\ \A r \in (p + 1)..(q - 1) : r \notin Fetches) =>
                   Cardinality({ r \in (p + 1)..(q - 1) : z_log[r] = SleepEvent }) = 1

\* A crawl of main.py or of winter.py requested three zone pages.
C20_Witness ==
    /\ zpc = "done"
    /\ z_variant \in {"main", "winter"}
    /\ Cardinality(Fetches) >= 3
    /\ Cardinality({ r \in 1..Len(z_log) : z_log[r] = SleepEvent }) >= 3

\* C21: in the crawl of main.py the season is set on the session before the
\* first request, and every request of the crawl, for the main page, the
\* index page and each zone page, carries the season cookie of the session.
C21_SeasonOnEveryRequest ==
    (z_variant = "main" /\ z_requests # <<>>) =>
        /\ z_session # None
        /\ \A i \in 1..Len(z_requests) : z_requests[i].cookie = z_session

\* C22: every request of the crawl is issued with a timeout.
C22_EveryFetchHasTimeout ==
    \A i \in 1..Len(z_requests) : z_requests[i].timeout # None

----------------------------------------------------------------------------
(* Eco-trails: ecoTracs.py.  A text is a sequence of words, spaces,        *)
(* hyphens and "nbsp" (a non-breaking space, '&nbsp;' or '\xa0').  The     *)
(* page is [container, children]: whether it has the 'data-formatted-text' *)
(* div, and the children of that div in order, each [name, text, length,   *)
(* map]: the tag; the text; for a p, None or the number the length pattern *)
(* and float() give; for a p, None or the map URL its iframe or its ymaps  *)
(* element gives.                                                          *)

\* clean_text: non-breaking spaces to spaces, strip, runs of spaces to one.
RECURSIVE CollapseSpaces(_)
CollapseSpaces(text) ==
    IF Len(text) <= 1 THEN text
    ELSE IF IsSpace(text[1]) /\ IsSpace(text[2]) THEN CollapseSpaces(Tail(text))
    ELSE <<Head(text)>> \o CollapseSpaces(Tail(text))

clean_text(text) ==
    CollapseSpaces(Strip([i \in 1..Len(text) |->
                            IF text[i] = "nbsp" THEN " " ELSE text[i]]))

\* The index of the first hyphen of text, 0 if it has none.
FirstHyphen(text) ==
    IF PhraseIn("-", text)
    THEN CHOOSE i \in 1..Len(text) :
             text[i] = "-" /\ \A j \in 1..(i - 1) : text[j] # "-"
    ELSE 0

\* The index at or after from where ' - ' first starts in text, 0 if nowhere.
FirstSeparator(text, from) ==
    LET at == { i \in from..(Len(text) - 2) :
                  text[i] = " " /\ text[i + 1] = "-" /\ text[i + 2] = " " }
    IN  IF at = {} THEN 0 ELSE CHOOSE i \in at : \A j \in at : i <= j

\* text.split(' - '), its first two parts.
SplitParts(text) ==
    LET s1 == FirstSeparator(text, 1)
        s2 == FirstSeparator(text, s1 + 3)
    IN  IF s1 = 0 THEN <<text>>
        ELSE <<SubSeq(text, 1, s1 - 1),
               SubSeq(text, s1 + 3, IF s2 = 0 THEN Len(text) ELSE s2 - 1)>>

\* re.match(r'([^-]+)-\s*(.+)', text) matches when the first hyphen has a
\* character before it and one after it; group 1 is the text before that
\* hyphen, group 2 the text after it less its leading spaces.  Otherwise the
\* text is split on ' - '.
HeadingSplit(text) ==
    LET h == FirstHyphen(text)
    IN  IF h >= 2 /\ h < Len(text)
        THEN [name |-> Strip(SubSeq(text, 1, h - 1)),
              description |-> Strip(SubSeq(text, h + 1, Len(text)))]
        ELSE [name |-> Strip(SplitParts(text)[1]),
              description |-> IF Len(SplitParts(text)) > 1
                              THEN Strip(SplitParts(text)[2]) ELSE <<>>]

\* EcoTrail(name, length=0.0, description)
EcoTrail(name, description) ==
    [name |-> name, length |-> "0.0", description |-> description, map_url |-> None]

\* "trail_name in h2.text"
Contains(text, part) ==
    \E i \in 0..(Len(text) - Len(part)) : SubSeq(text, i + 1, i + Len(part)) = part

\* find_map_url: for the h2 elements whose text contains the name, in order,
\* the map of the first p after the h2 that gives one.
find_map_url(doc, trail_name) ==
    LET el == doc.children
        maps(i) == { j \in (i + 1)..Len(el) : el[j].name = "p" /\ el[j].map # None }
        hs == { i \in 1..Len(el) :
                  el[i].name = "h2" /\ Contains(el[i].text, trail_name) /\ maps(i) # {} }
    IN  IF hs = {} THEN None
        ELSE LET h == CHOOSE i \in hs : \A k \in hs : i <= k
             IN  el[CHOOSE j \in maps(h) : \A k \in maps(h) : j <= k].map

\* "Северная энергия"
SevernayaEnergiya == <<"Severnaya", " ", "energiya">>

\* The map URL written in the code for that name.
FixedMapUrl == Some("yandex.ru/maps/...constructor:97f3eaa3...")

\* A trail closed by the next heading (ecoTracs.py:79-81).
ClosedByHeading(doc, trail) ==
    [trail EXCEPT !.map_url = find_map_url(doc, trail.name)]

\* The trail closed after the loop (ecoTracs.py:106-111).
ClosedAtEnd(doc, trail) ==
    IF trail.name = SevernayaEnergiya THEN [trail EXCEPT !.map_url = FixedMapUrl]
    ELSE [trail EXCEPT !.map_url = find_map_url(doc, trail.name)]

----------------------------------------------------------------------------
(* The eco-trail pages and the names asked for.                            *)

\* Most children of the container.
MaxChildren == 3

Heading(text) == [name |-> "h2", text |-> text, length |-> None, map |-> None]

Paragraph(length, map) ==
    [name |-> "p", text |-> <<"tekst">>, length |-> length, map |-> map]

EcoElements ==
    { Heading(t) :
        t \in { SevernayaEnergiya \o <<" ", "-", " ", "zhivopisnyy", " ", "marshrut">>,
                <<"Tropa">>,
                <<"Tropa", "-">>,
                <<"-", "Tropa", " ", "-", " ", "les">>,
                <<"Yug", "nbsp", " ", "-", "les", " ", "-", " ", "2">> } }
    \cup { Paragraph(Some("2.5"), None), Paragraph(None, Some("map1")),
           [name |-> "div", text |-> <<>>, length |-> None, map |-> None] }

EcoDocs ==
    { [container |-> FALSE, children |-> <<>>] }
    \cup { [container |-> TRUE, children |-> c] :
             c \in UNION { [1..n -> EcoElements] : n \in 0..MaxChildren } }

\* None for get_eco_trails, else the trail_name of get_trail_by_name.
EcoNames == { None, Some(<<"severnaya", " ", "energiya">>), Some(<<"Net">>) }

----------------------------------------------------------------------------
(* get_eco_trails and get_trail_by_name as a state machine.                *)

EcoInit ==
    /\ TracksIdle /\ LiftIdle /\ PriceIdle /\ PassIdle /\ WeatherIdle
    /\ RestaurantIdle /\ ZonesIdle /\ ManagerIdle
    /\ e_name \in EcoNames
    /\ e_doc = None
    /\ e_i = 1
    /\ trails = <<>>
    /\ current_trail = None
    /\ e_exc = None
    /\ e_result = None
    /\ epc = "fetch"

\* get_page_content: the request fails and an HTTPException 500 is raised.
EcoFetchFails ==
    /\ epc = "fetch"
    /\ e_exc' = Some(HTTPException(500, "Oshibka pri zagruzke stranitsy"))
    /\ epc' = "except"
    /\ UNCHANGED <<e_name, e_doc, e_i, trails, current_trail, e_result, offEco>>

\* The page arrives.
EcoFetchOk(doc) ==
    /\ epc = "fetch"
    /\ e_doc' = Some(doc)
    /\ epc' = "parse"
    /\ UNCHANGED <<e_name, e_i, trails, current_trail, e_exc, e_result, offEco>>

\* parse_eco_trails: no container, an HTTPException 500 is raised.
EcoNoContainer ==
    /\ epc = "parse" /\ ~e_doc[1].container
    /\ e_exc' = Some(HTTPException(500, "Ne nayden osnovnoy konteyner"))
    /\ epc' = "except"
    /\ UNCHANGED <<e_name, e_doc, e_i, trails, current_trail, e_result, offEco>>

\* One turn of the loop on an h2: the trail being built is closed and a new
\* one is begun from the heading.
EcoHeading ==
    /\ epc = "parse" /\ e_doc[1].container
    /\ e_i <= Len(e_doc[1].children)
    /\ e_doc[1].children[e_i].name = "h2"
    /\ trails' = IF current_trail # None
                 THEN Append(trails, ClosedByHeading(e_doc[1], current_trail[1]))
                 ELSE trails
    /\ current_trail' =
         LET parts == HeadingSplit(clean_text(e_doc[1].children[e_i].text))
         IN  Some(EcoTrail(parts.name, parts.description))
    /\ e_i' = e_i + 1
    /\ UNCHANGED <<e_name, e_doc, e_exc, e_result, epc, offEco>>

\* One turn of the loop on another child: a p gives the length of the trail
\* being built if it has one.
EcoOther ==
    /\ epc = "parse" /\ e_doc[1].container
    /\ e_i <= Len(e_doc[1].children)
    /\ e_doc[1].children[e_i].name # "h2"
    /\ current_trail' =
         IF /\ e_doc[1].children[e_i].name = "p"
            /\ current_trail # None
            /\ e_doc[1].children[e_i].length # None
         THEN Some([current_trail[1] EXCEPT !.length = e_doc[1].children[e_i].length[1]])
         ELSE current_trail
    /\ e_i' = e_i + 1
    /\ UNCHANGED <<e_name, e_doc, trails, e_exc, e_result, epc, offEco>>

\* After the loop the last trail is closed; get_eco_trails returns the list,
\* get_trail_by_name goes on to look the name up.
EcoParsed ==
    /\ epc = "parse" /\ e_doc[1].container
    /\ e_i > Len(e_doc[1].children)
    /\ trails' = IF current_trail # None
                 THEN Append(trails, ClosedAtEnd(e_doc[1], current_trail[1]))
                 ELSE trails
    /\ IF e_name = None
       THEN /\ e_result' = Some(ZReturned(Some(trails')))
            /\ epc' = "done"
       ELSE /\ e_result' = e_result
            /\ epc' = "lookup"
    /\ UNCHANGED <<e_name, e_doc, e_i, current_trail, e_exc, offEco>>

\* The trails whose lowered name is the lowered trail_name.
Named(ts, name) == SelectSeq(ts, LAMBDA t : Lower(t.name) = Lower(name))

\* get_trail_by_name: the first trail of that name is returned, or the 404
\* is raised inside the try block.
EcoLookup ==
    /\ epc = "lookup"
    /\ IF Named(trails, e_name[1]) # <<>>
       THEN /\ e_result' = Some(ZReturned(Some(Named(trails, e_name[1])[1])))
            /\ epc' = "done"
            /\ e_exc' = e_exc
       ELSE /\ e_exc' = Some(HTTPException(404, "Eko-tropa ne naydena"))
            /\ epc' = "except"
            /\ e_result' = e_result
    /\ UNCHANGED <<e_name, e_doc, e_i, trails, current_trail, offEco>>

\* "except Exception as e: raise HTTPException(500, str(e))" of the endpoint.
EcoHandler(exc) == HTTPException(500, "str(e)")

EcoExcept ==
    /\ epc = "except"
    /\ e_result' = Some(ZRaised(EcoHandler(e_exc[1])))
    /\ e_exc' = None
    /\ epc' = "done"
    /\ UNCHANGED <<e_name, e_doc, e_i, trails, current_trail, offEco>>

EcoNext ==
    \/ EcoFetchFails
    \/ \E doc \in (IF epc = "fetch" THEN EcoDocs ELSE {}) : EcoFetchOk(doc)
    \/ EcoNoContainer
    \/ EcoHeading
    \/ EcoOther
    \/ EcoParsed
    \/ EcoLookup
    \/ EcoExcept

SpecEco == EcoInit /\ [][EcoNext]_vars

----------------------------------------------------------------------------
(* Properties of the eco-trails.                                           *)

\* The cleaned texts of the headings of the page, in order.
HeadingTexts(doc) ==
    LET hs == SelectSeq(doc.children, LAMBDA el : el.name = "h2")
    IN  [i \in 1..Len(hs) |-> clean_text(hs[i].text)]

\* C23: the trail of a heading with a hyphen has for name the trimmed text
\* before the first hyphen and for description the trimmed text after it;
\* the trail of a heading without hyphen has the whole text for name and an
\* empty description.
C23_HeadingSplitOnFirstHyphen ==
    (epc = "done" /\ e_name = None /\ e_result[1].kind = "returned") =>
        LET texts == HeadingTexts(e_doc[1])
            out == e_result[1].value[1]
        IN  /\ Len(out) = Len(texts)
            /\ \A i \in 1..Len(texts) :
                   LET h == FirstHyphen(texts[i])
                   IN  IF h > 0
                       THEN /\ out[i].name = Strip(SubSeq(texts[i], 1, h - 1))
                            /\ out[i].description =
                                   Strip(SubSeq(texts[i], h + 1, Len(texts[i])))
                       ELSE /\ out[i].name = texts[i]
                            /\ out[i].description = <<>>

\* C24: every trail named 'Северная энергия' has the fixed map URL, whatever
\* its place among the headings, and every other trail has what the generic
\* search gives for its name.
C24_FixedMapForSevernayaEnergiya ==
    (epc = "done" /\ e_name = None /\ e_result[1].kind = "returned") =>
        \A t \in Range(e_result[1].value[1]) :
            t.map_url = IF t.name = SevernayaEnergiya THEN FixedMapUrl
                        ELSE find_map_url(e_doc[1], t.name)

\* C28: when the page was fetched and parsed and no trail has the name asked
\* for, get_trail_by_name ends in the 404; a 500 comes from a failed fetch or
\* a page without container only.
C28_UnknownTrailIs404 ==
    (epc = "done" /\ e_name # None /\ e_doc # None /\ e_doc[1].container) =>
        IF Named(trails, e_name[1]) = <<>>
        THEN /\ e_result[1].kind = "raised"
             /\ e_result[1].exc[1].status = 404
        ELSE e_result[1].kind = "returned"

----------------------------------------------------------------------------
(* Further properties of the crawl and of extract_schedule.                *)

\* C25: every Zone record of a crawl has a name that is not empty after the
\* trimming and the cut at '(' and a URL that is absolute.
C25_ZoneNamesNonEmpty ==
    \A i \in 1..Len(zones_data) :
        /\ zones_data[i].name # <<>>
        /\ Head(zones_data[i].url) \in {"http://", "https://"}

\* A crawl that ended in a failure: None returned, or an exception raised.
CrawlFailed ==
    /\ zpc = "done"
    /\ \/ z_result[1].kind = "raised"
       \/ z_result[1].value = None

\* C26: the links of the primary selectors are the zones whenever there are
\* any; those of the 'gv-select' container are the zones only when there are
\* no primary links; with neither the crawl fails, visits no zone and does
\* not return a list.
C26_FirstNonEmptyLinkSet ==
    z_index # None =>
        LET primary == z_index[1].primary
            select == IF z_index[1].select # None THEN z_index[1].select[1] ELSE <<>>
        IN  /\ primary # <<>> => zones = primary
            /\ (primary = <<>> /\ select # <<>>) => zones = select
            /\ (primary = <<>> /\ select = <<>>) =>
                   /\ CrawlFailed
                   /\ z_log = <<>>
                   /\ zones_data = <<>>

\* A crawl over the links of 'gv-select', the primary set being empty, came
\* to its end.
C26_Witness ==
    /\ zpc = "done"
    /\ z_index # None
    /\ z_index[1].primary = <<>>
    /\ z_index[1].select # None
    /\ zones = z_index[1].select[1]
    /\ Len(zones) = 1
    /\ z_result[1].kind = "returned"
    /\ z_result[1].value # None
    /\ Len(z_result[1].value[1]) = 1

\* The first of the four phrases, in the order of the chain, that the row
\* has: the fields such a row sets.
RowFields(text) ==
    IF PhraseIn(PonedelnikPyatnitsa, text) THEN {"workdays"}
    ELSE IF PhraseIn(SubbotaIVoskresenye, text) THEN {"saturday", "sunday"}
    ELSE IF PhraseIn(Subbota, text) THEN {"saturday"}
    ELSE IF PhraseIn(Voskresenye, text) THEN {"sunday"}
    ELSE {}

\* C27: a row sets the fields of the first phrase it has, in the order
\* workdays, weekend, Saturday, Sunday, and no other; it sets them to the
\* range of its time when it has one, and changes nothing when it has none;
\* each row is applied to what the rows before it left.
C27_RowClassification ==
    [][ nrows' = nrows + 1 =>
          \A f \in {"workdays", "saturday", "sunday"} :
              schedule'[f] =
                  IF f \in RowFields(row') /\ TimeRangeSearch(row') # None
                  THEN Some(TimeRangeSearch(row')[1][1] \o <<"-">>
                            \o TimeRangeSearch(row')[1][2])
                  ELSE schedule[f] ]_vars

\* A row with the Sunday and the workday phrase and a time was applied after
\* a weekend row: it set the workdays and left the weekend as it was.
C27_Witness ==
    /\ lpc = "scan"
    /\ nrows = 2
    /\ row = <<Voskresenye, " ", PonedelnikPyatnitsa>> \o TimePhrase(T0900, T1700)
    /\ schedule.workdays = Some(T0900 \o <<"-">> \o T1700)
    /\ schedule.saturday = Some(T1030 \o <<"-">> \o T1800)
    /\ schedule.sunday = Some(T1030 \o <<"-">> \o T1800)

----------------------------------------------------------------------------
(* endPoint.py: start_parsers, check_service, stop_parsers.                *)

\* The parsers dictionary, in its order of insertion.
Parsers == <<"restaurant", "lift", "weather", "ecoTracs", "winter">>

\* check_service(url, retries = 5).
Retries == 5

\* The calls of start_parsers and stop_parsers made from outside.
MaxOps == 2

\* The processes that are gone when stop_parsers signals them.
MaxGone == 1

\* What one attempt of check_service gets: a response with its status, or
\* the RequestException of requests.get.
Response(status) == [raised |-> FALSE, status |-> status]

RequestFailed == [raised |-> TRUE, status |-> 0]

Responses == {Response(200), Response(503), RequestFailed}

\* An entry of the history.
Event(type, k, pid, flag) == [type |-> type, k |-> k, pid |-> pid, flag |-> flag]

\* A check that takes any response for readiness.
check_service_any(attempt, response) == "ready"

\* check_service at the end of its turn number 'attempt', which got
\* 'response': True on a 200, False when it was the last turn.
check_service(attempt, response) ==
    IF ~response.raised /\ response.status = 200 THEN "ready"
    ELSE IF attempt >= Retries THEN "failed"
    ELSE "pending"

\* A stop that leaves the list as it is.
Kept(processes) == processes

\* parser_processes.clear().
Cleared(processes) == <<>>

\* The calls made from outside so far.
TopCalls ==
    Cardinality({ i \in 1..Len(m_log) :
        \/ m_log[i].type = "start"
        \/ m_log[i].type = "stop" /\ ~m_log[i].flag })

\* The signals of stop_parsers that met a process already gone.
Gone ==
    Cardinality({ i \in 1..Len(m_log) : m_log[i].type = "signal" /\ ~m_log[i].flag })

ManagerInit ==
    /\ TracksIdle /\ LiftIdle /\ PriceIdle /\ PassIdle /\ WeatherIdle
    /\ RestaurantIdle /\ ZonesIdle /\ EcoIdle
    /\ ManagerIdle

\* startup_event: start_parsers is called.
StartParsers ==
    /\ mpc = "idle"
    /\ TopCalls < MaxOps
    /\ m_starts' = m_starts + 1
    /\ m_k' = 1
    /\ m_log' = Append(m_log, Event("start", 0, 0, FALSE))
    /\ mpc' = "launch"
    /\ m_attempt' = 0
    /\ m_response' = None
    /\ UNCHANGED <<parser_processes, ngrok_tunnels, m_launched, m_j, m_nested,
                   offManager>>

\* One turn of the loop up to the check: Popen, append, tunnel.
Launch ==
    /\ mpc = "launch"
    /\ m_k <= Len(Parsers)
    /\ m_launched' = m_launched + 1
    /\ parser_processes' =
           Append(parser_processes, [pid |-> m_launched + 1, name |-> Parsers[m_k]])
    /\ ngrok_tunnels' = ngrok_tunnels \cup {Parsers[m_k]}
    /\ m_attempt' = 0
    /\ m_response' = None
    /\ m_log' = Append(m_log, Event("launch", m_k, m_launched + 1, TRUE))
    /\ mpc' = "check"
    /\ UNCHANGED <<m_starts, m_k, m_j, m_nested, offManager>>

\* The turn whose ngrok.connect raises: the process is started and listed,
\* and the exception leaves start_parsers.
LaunchTunnelFails ==
    /\ mpc = "launch"
    /\ m_k <= Len(Parsers)
    /\ m_launched' = m_launched + 1
    /\ parser_processes' =
           Append(parser_processes, [pid |-> m_launched + 1, name |-> Parsers[m_k]])
    /\ m_attempt' = 0
    /\ m_response' = None
    /\ m_log' = m_log \o <<Event("launch", m_k, m_launched + 1, TRUE),
                           Event("raised", m_k, 0, FALSE)>>
    /\ mpc' = "idle"
    /\ UNCHANGED <<ngrok_tunnels, m_starts, m_k, m_j, m_nested, offManager>>

\* An attempt of check_service that is not the last word: sleep, next one.
CheckRetry(response) ==
    /\ mpc = "check"
    /\ check_service(m_attempt + 1, response) = "pending"
    /\ m_attempt' = m_attempt + 1
    /\ m_response' = Some(response)
    /\ UNCHANGED <<parser_processes, ngrok_tunnels, m_starts, m_launched, m_k,
                   m_j, m_nested, m_log, mpc, offManager>>

\* check_service returns True: the loop goes to the next parser, and after
\* the last one start_parsers reports and returns.
CheckReady(response) ==
    /\ mpc = "check"
    /\ check_service(m_attempt + 1, response) = "ready"
    /\ m_attempt' = m_attempt + 1
    /\ m_response' = Some(response)
    /\ m_k' = m_k + 1
    /\ IF m_k = Len(Parsers)
       THEN /\ m_log' = m_log \o <<Event("check", m_k, 0, TRUE),
                                   Event("allstarted", 0, 0, TRUE)>>
            /\ mpc' = "idle"
       ELSE /\ m_log' = Append(m_log, Event("check", m_k, 0, TRUE))
            /\ mpc' = "launch"
    /\ UNCHANGED <<parser_processes, ngrok_tunnels, m_starts, m_launched, m_j,
                   m_nested, offManager>>

\* check_service returns False: start_parsers calls stop_parsers.
CheckFailed(response) ==
    /\ mpc = "check"
    /\ check_service(m_attempt + 1, response) = "failed"
    /\ m_attempt' = m_attempt + 1
    /\ m_response' = Some(response)
    /\ m_j' = 1
    /\ m_nested' = TRUE
    /\ m_log' = m_log \o <<Event("check", m_k, 0, FALSE),
                           Event("stop", 0, 0, TRUE)>>
    /\ mpc' = "stop"
    /\ UNCHANGED <<parser_processes, ngrok_tunnels, m_starts, m_launched, m_k,
                   offManager>>

\* shutdown_event: stop_parsers is called.
StopParsers ==
    /\ mpc = "idle"
    /\ TopCalls < MaxOps
    /\ m_j' = 1
    /\ m_nested' = FALSE
    /\ m_log' = Append(m_log, Event("stop", 0, 0, FALSE))
    /\ mpc' = "stop"
    /\ m_attempt' = 0
    /\ m_response' = None
    /\ UNCHANGED <<parser_processes, ngrok_tunnels, m_starts, m_launched, m_k,
                   offManager>>

\* One turn of the loop of stop_parsers: os.kill delivers the signal, or
\* raises ProcessLookupError / OSError and the loop continues.
StopSignal(delivered) ==
    /\ mpc = "stop"
    /\ m_j <= Len(parser_processes)
    /\ delivered \/ Gone < MaxGone
    /\ m_log' = Append(m_log, Event("signal", 0, parser_processes[m_j].pid, delivered))
    /\ m_j' = m_j + 1
    /\ m_attempt' = 0
    /\ m_response' = None
    /\ UNCHANGED <<parser_processes, ngrok_tunnels, m_starts, m_launched, m_k,
                   m_nested, mpc, offManager>>

\* The end of stop_parsers: clear, ngrok.kill; sys.exit(1) in start_parsers
\* when it was the caller.
StopClear ==
    /\ mpc = "stop"
    /\ m_j > Len(parser_processes)
    /\ parser_processes' = Cleared(parser_processes)
    /\ m_log' = m_log \o (IF m_nested
                          THEN <<Event("stopped", 0, 0, TRUE), Event("exit", 0, 1, FALSE)>>
                          ELSE <<Event("stopped", 0, 0, FALSE)>>)
    /\ m_nested' = FALSE
    /\ mpc' = "idle"
    /\ m_attempt' = 0
    /\ m_response' = None
    /\ UNCHANGED <<ngrok_tunnels, m_starts, m_launched, m_k, m_j, offManager>>

ManagerNext ==
    \/ StartParsers
    \/ Launch
    \/ LaunchTunnelFails
    \/ \E response \in Responses : CheckRetry(response)
    \/ \E response \in Responses : CheckReady(response)
    \/ \E response \in Responses : CheckFailed(response)
    \/ StopParsers
    \/ \E delivered \in BOOLEAN : StopSignal(delivered)
    \/ StopClear

SpecManager == ManagerInit /\ [][ManagerNext]_vars

----------------------------------------------------------------------------
(* Properties of the process manager.                                      *)

\* The first and the last place of a set of places.
Least(places) == CHOOSE j \in places : \A h \in places : j <= h

Greatest(places) == CHOOSE j \in places : \A h \in places : h <= j

\* The place of the call of start_parsers that entry i belongs to, 0 if none.
StartOf(i) ==
    LET before == { j \in 1..i : m_log[j].type = "start" }
    IN  IF before = {} THEN 0 ELSE Greatest(before)

\* The entries of one type after place i.
After(i, types) == { j \in (i + 1)..Len(m_log) : m_log[j].type \in types }

\* C29: the parsers are launched one at a time in the order of the
\* dictionary, parser k+1 only right after parser k passed its check; a check
\* passes only on a 200 got within the retries and fails only after that many
\* attempts without one; after a failed check start_parsers launches nothing
\* more, runs stop_parsers over all it started and exits, and never reports
\* that all services started.
C29_LaunchAfterReady ==
    /\ \A i \in 1..Len(m_log) :
        /\ m_log[i].type = "launch" =>
               /\ i > 1
               /\ IF m_log[i].k = 1
                  THEN m_log[i - 1].type = "start"
                  ELSE m_log[i - 1] = Event("check", m_log[i].k - 1, 0, TRUE)
        /\ m_log[i].type = "allstarted" =>
               /\ m_log[i - 1] = Event("check", Len(Parsers), 0, TRUE)
               /\ { m_log[j].k : j \in { h \in StartOf(i)..i : m_log[h].type = "check"
                                                              /\ m_log[h].flag } }
                      = 1..Len(Parsers)
        /\ (m_log[i].type = "check" /\ ~m_log[i].flag) =>
               LET next == After(i, {"start"})
                   end == IF next = {} THEN Len(m_log) + 1 ELSE Least(next)
                   ends == After(i, {"stopped"})
                   mine == { m_log[j].pid : j \in { h \in StartOf(i)..i :
                                                     m_log[h].type = "launch" } }
               IN  /\ \A j \in (i + 1)..(end - 1) :
                          m_log[j].type \notin {"launch", "allstarted", "check"}
                   /\ i < Len(m_log) /\ m_log[i + 1] = Event("stop", 0, 0, TRUE)
                   /\ ends # {} =>
                          /\ Least(ends) < end
                          /\ mine \subseteq
                                 { m_log[h].pid :
                                     h \in { g \in i..Least(ends) : m_log[g].type = "signal" } }
                          /\ Least(ends) < Len(m_log)
                          /\ m_log[Least(ends) + 1] = Event("exit", 0, 1, FALSE)
    /\ (m_log # <<>> /\ m_log[Len(m_log)].type \in {"check", "allstarted"}) =>
           /\ m_log[Len(m_log)].flag
           /\ m_attempt \in 1..Retries
           /\ m_response = Some(Response(200))
    /\ (mpc = "check" /\ m_attempt > 0) =>
           /\ m_attempt < Retries
           /\ m_response # Some(Response(200))
    /\ (m_log # <<>> /\ m_log[Len(m_log)] = Event("stop", 0, 0, TRUE)) =>
           /\ m_attempt = Retries
           /\ m_response # Some(Response(200))

\* The third parser failed its check after two passed: the three processes
\* were signalled and start_parsers exited.
C29_Witness ==
    /\ mpc = "idle"
    /\ Len(m_log) >= 2
    /\ m_log[Len(m_log)].type = "exit"
    /\ \E i \in 1..Len(m_log) : m_log[i] = Event("check", 3, 0, FALSE)
    /\ \E i \in 1..Len(m_log) : m_log[i] = Event("check", 2, 0, TRUE)
    /\ Cardinality(After(0, {"signal"})) = 3
    /\ Cardinality(After(0, {"launch"})) = 3

\* The pids the list held when the stop of place i began: those launched
\* since the stop before it ended.
ListedAt(i) ==
    LET ends == { j \in 1..i : m_log[j].type = "stopped" }
        from == IF ends = {} THEN 0 ELSE Greatest(ends)
    IN  { m_log[j].pid : j \in { h \in (from + 1)..i : m_log[h].type = "launch" } }

\* The place of the call of stop_parsers that ended at place j.
StopOf(j) ==
    CHOOSE i \in 1..j : /\ m_log[i].type = "stop"
                        /\ \A h \in (i + 1)..j : m_log[h].type # "stop"

\* C30: when stop_parsers has ended the list is empty; between its start and
\* its end every process the list held was signalled, whatever became of the
\* signals before; no process is signalled by two calls, so that a second
\* call signals none.
C30_StopClearsAndSignalsAll ==
    /\ (m_log # <<>> /\ mpc = "idle"
            /\ m_log[Len(m_log)].type \in {"stopped", "exit"}) =>
           parser_processes = <<>>
    /\ \A j \in 1..Len(m_log) :
           m_log[j].type = "stopped" =>
               { m_log[h].pid : h \in { g \in StopOf(j)..j : m_log[g].type = "signal" } }
                   = ListedAt(StopOf(j))
    /\ Cardinality({ m_log[i].pid : i \in After(0, {"signal"}) })
           = Cardinality(After(0, {"signal"}))

\* start_parsers started all five; the first stop_parsers met one process
\* gone and signalled the other four; nothing is listed.
C30_Witness ==
    /\ mpc = "idle"
    /\ parser_processes = <<>>
    /\ m_log # <<>>
    /\ m_log[Len(m_log)].type = "stopped"
    /\ \E i \in 1..Len(m_log) : m_log[i].type = "allstarted"
    /\ Cardinality(After(0, {"signal"})) = Len(Parsers)
    /\ \E i \in 1..Len(m_log) : m_log[i] = Event("signal", 0, 2, FALSE)
    /\ \E i \in 1..Len(m_log) : m_log[i] = Event("signal", 0, 5, TRUE)

====
